---- MODULE Spec2Model ----
(***************************************************************************)
(* Process jobs of the CR Session backend: the in-memory job registry, the *)
(* per-job event log with its SSE listeners (server, "Process jobs"        *)
(* section), and the LangGraph pipeline preprocessor -> analyst ->         *)
(* summarizer -> validator -> {summarizer | formatter} that runProcessJob  *)
(* drives and republishes as job events.                                   *)
(*                                                                         *)
(* Node.js runs every handler and every continuation of an await to        *)
(* completion, so one action is one such run: an HTTP handler, or the      *)
(* continuation that follows the settling of one call to the model.        *)
(* Event payloads keep what the claims read: the step name and the scene   *)
(* ids. An event's timestamp is the updatedAt written by the same publish. *)
(***************************************************************************)
EXTENDS Integers, Sequences, FiniteSets, TLC

VARIABLES
  jobs,         \* the ProcessJob objects ever created, by id (1..Len(jobs))
  processJobs,  \* the keys of the processJobs map (a swept job leaves it)
  pipe,         \* per job: the workflow state and the position of its run
  streams,      \* the GET /api/jobs/:id/stream requests served so far
  accepted,     \* per job: the 202 response of POST /api/jobs
  reply,        \* the last response of a rejected POST, of GET /api/jobs/:id
                \* or of GET /api/jobs
  now,          \* Date.now(), in ms
  ticks         \* how many times the clock has advanced

vars == <<jobs, processJobs, pipe, streams, accepted, reply, now, ticks>>

---------------------------------------------------------------------------
(* Bounds of the model *)
MaxJobs == 2
MaxStreams == 2
MaxTicks == 2
MaxScenes == 3

(* Program constants *)
MAX_RETRIES == 2
SCENE_CONCURRENCY == 5
VALIDATION_CONCURRENCY == 5
PROCESS_JOB_RETENTION_MS == 6 * 60 * 60 * 1000
WRAPPER_RETRY_LIMIT == 2

NULL == "null"

---------------------------------------------------------------------------
(* Sequence helpers *)
Range(s) == {s[i] : i \in DOMAIN s}

RECURSIVE Without(_, _)
Without(s, x) ==
  IF s = <<>> THEN <<>>
  ELSE IF Head(s) = x THEN Without(Tail(s), x)
  ELSE <<Head(s)>> \o Without(Tail(s), x)

RECURSIVE SortedSeq(_)
SortedSeq(S) ==
  IF S = {} THEN <<>>
  ELSE LET m == CHOOSE x \in S : \A y \in S : x <= y
       IN <<m>> \o SortedSeq(S \ {m})

RECURSIVE Dedup(_)
Dedup(s) ==
  IF s = <<>> THEN <<>>
  ELSE LET r == Dedup(SubSeq(s, 1, Len(s) - 1))
       IN IF s[Len(s)] \in Range(r) THEN r ELSE Append(r, s[Len(s)])

---------------------------------------------------------------------------
(* Job registry *)

isTerminalJobStatus(status) == status = "completed" \/ status = "failed"

toProcessJobSummary_noError(job) ==
  [status |-> job.status, createdAt |-> job.createdAt,
   updatedAt |-> job.updatedAt, playersCount |-> Len(job.input.playerInfo),
   error |-> NULL]

toProcessJobSummary(job) ==
  [status |-> job.status, createdAt |-> job.createdAt,
   updatedAt |-> job.updatedAt, playersCount |-> Len(job.input.playerInfo),
   error |-> job.error]

cleanupProcessJobs_anyStatus(js, keys, t) ==
  {id \in keys : ~(t - js[id].updatedAt > PROCESS_JOB_RETENTION_MS)}

cleanupProcessJobs(js, keys, t) ==
  {id \in keys :
     ~(isTerminalJobStatus(js[id].status)
       /\ t - js[id].updatedAt > PROCESS_JOB_RETENTION_MS)}

createProcessJob(input, t) ==
  [status |-> "pending", createdAt |-> t, updatedAt |-> t, input |-> input,
   events |-> <<>>, listeners |-> <<>>, nextEventId |-> 1, error |-> NULL,
   statusLog |-> <<"pending">>, errorLog |-> <<NULL>>]

(* A world is the heap the synchronous code mutates: the job objects, the   *)
(* stream closures, and the exception in flight, if any.                    *)
World(js, ss) == [jobs |-> js, streams |-> ss, threw |-> FALSE, msg |-> NULL]

Throw(w, m) == IF w.threw THEN w ELSE [w EXCEPT !.threw = TRUE, !.msg = m]

setProcessJobStatus_ignored(w, j, status, error, t) ==
  [w EXCEPT !.jobs[j].updatedAt = t]

(* statusLog and errorLog keep the value of status and error after each     *)
(* call, the creation included                                              *)
setProcessJobStatus(w, j, status, error, t) ==
  [w EXCEPT !.jobs[j].status = status,
            !.jobs[j].error = error,
            !.jobs[j].updatedAt = t,
            !.jobs[j].statusLog = Append(@, status),
            !.jobs[j].errorLog = Append(@, error)]

cleanup_abortsJob(w, s) ==
  IF w.streams[s].closed THEN w
  ELSE [w EXCEPT !.streams[s].closed = TRUE,
                 !.streams[s].heartbeat = FALSE,
                 !.jobs[w.streams[s].job].listeners = Without(@, s),
                 !.jobs[w.streams[s].job].status = "failed",
                 !.streams[s].ended = TRUE]

cleanup_keepsListener(w, s) ==
  IF w.streams[s].closed THEN w
  ELSE [w EXCEPT !.streams[s].closed = TRUE,
                 !.streams[s].heartbeat = FALSE,
                 !.streams[s].ended = TRUE]

cleanup_again(w, s) ==
  [w EXCEPT !.streams[s].closed = TRUE,
            !.streams[s].heartbeat = FALSE,
            !.jobs[w.streams[s].job].listeners = Without(@, s),
            !.streams[s].ended = TRUE,
            !.streams[s].torn = @ + 1]

(* cleanup of one stream (streamProcessJob) *)
cleanup(w, s) ==
  IF w.streams[s].closed THEN w
  ELSE [w EXCEPT !.streams[s].closed = TRUE,
                 !.streams[s].heartbeat = FALSE,
                 !.jobs[w.streams[s].job].listeners = Without(@, s),
                 !.streams[s].ended = TRUE,
                 !.streams[s].torn = @ + 1]

listener_keepsOpen(w, j, s, ev) ==
  IF w.streams[s].ended THEN w
  ELSE [w EXCEPT !.streams[s].received = Append(@, ev.id)]

(* the listener closure of one stream (inLog: every event it was called    *)
(* with was in the log of the job at the time of the call)                  *)
listener(w, j, s, ev) ==
  LET w1 == IF w.streams[s].ended THEN w
            ELSE [w EXCEPT !.streams[s].received = Append(@, ev.id),
                           !.streams[s].inLog =
                              @ /\ \E i \in DOMAIN w.jobs[j].events :
                                     w.jobs[j].events[i].id = ev.id]
  IN IF isTerminalJobStatus(w1.jobs[j].status) THEN cleanup(w1, s) ELSE w1

(* for (const listener of [...job.listeners]) listener(event): a listener   *)
(* in F raises, which ends the loop                                         *)
RECURSIVE notify(_, _, _, _, _)
notify(w, j, ls, ev, F) ==
  IF ls = <<>> THEN w
  ELSE IF Head(ls) \in F THEN Throw(w, "listener")
  ELSE notify(listener(w, j, Head(ls), ev), j, Tail(ls), ev, F)

publishProcessJobEvent_sameId(w, j, type, step, scenes, message, t, F) ==
  IF w.threw THEN w
  ELSE LET ev == [id |-> w.jobs[j].nextEventId, type |-> type,
                  step |-> step, scenes |-> scenes, message |-> message,
                  timestamp |-> t,
                  \* history: the status of the job when the event is published
                  statusAt |-> w.jobs[j].status]
           w1 == [w EXCEPT !.jobs[j].events = Append(@, ev),
                           !.jobs[j].updatedAt = t]
       IN notify(w1, j, w1.jobs[j].listeners, ev, F)

publishProcessJobEvent_everyLog(w, j, type, step, scenes, message, t, F) ==
  IF w.threw THEN w
  ELSE LET ev == [id |-> w.jobs[j].nextEventId, type |-> type,
                  step |-> step, scenes |-> scenes, message |-> message,
                  timestamp |-> t, statusAt |-> w.jobs[j].status]
           w1 == [w EXCEPT !.jobs = [k \in DOMAIN w.jobs |->
                                       [w.jobs[k] EXCEPT !.events = Append(@, ev)]],
                           !.jobs[j].nextEventId = @ + 1,
                           !.jobs[j].updatedAt = t]
       IN notify(w1, j, w1.jobs[j].listeners, ev, F)

publishProcessJobEvent_notifyFirst(w, j, type, step, scenes, message, t, F) ==
  IF w.threw THEN w
  ELSE LET ev == [id |-> w.jobs[j].nextEventId, type |-> type,
                  step |-> step, scenes |-> scenes, message |-> message,
                  timestamp |-> t, statusAt |-> w.jobs[j].status]
           w1 == notify(w, j, w.jobs[j].listeners, ev, F)
       IN [w1 EXCEPT !.jobs[j].nextEventId = @ + 1,
                     !.jobs[j].events = Append(@, ev),
                     !.jobs[j].updatedAt = t]

publishProcessJobEvent(w, j, type, step, scenes, message, t, F) ==
  IF w.threw THEN w
  ELSE LET ev == [id |-> w.jobs[j].nextEventId, type |-> type,
                  step |-> step, scenes |-> scenes, message |-> message,
                  timestamp |-> t,
                  \* history: the status of the job when the event is published
                  statusAt |-> w.jobs[j].status]
           w1 == [w EXCEPT !.jobs[j].nextEventId = @ + 1,
                           !.jobs[j].events = Append(@, ev),
                           !.jobs[j].updatedAt = t]
       IN notify(w1, j, w1.jobs[j].listeners, ev, F)

Ev(type, step, scenes) ==
  [type |-> type, step |-> step, scenes |-> scenes, message |-> NULL]

RECURSIVE publishAll(_, _, _, _, _)
publishAll(w, j, evs, t, F) ==
  IF evs = <<>> THEN w
  ELSE publishAll(
         publishProcessJobEvent(w, j, Head(evs).type, Head(evs).step,
                                Head(evs).scenes, Head(evs).message, t, F),
         j, Tail(evs), t, F)

---------------------------------------------------------------------------
(* GET /api/jobs/:id/stream?from= *)

DigitChars == <<"0", "1", "2", "3", "4", "5", "6", "7", "8", "9">>
Digits == Range(DigitChars)
DigitValue(c) == (CHOOSE i \in DOMAIN DigitChars : DigitChars[i] = c) - 1

(* Number.parseInt(rawFrom, 10) on a string given as its characters: an     *)
(* optional sign, then the longest prefix of digits; "NaN" without a digit  *)
RECURSIVE digitsValue(_, _)
digitsValue(s, acc) ==
  IF s = <<>> \/ Head(s) \notin Digits THEN acc
  ELSE digitsValue(Tail(s), 10 * acc + DigitValue(Head(s)))

RECURSIVE trimStart(_)
trimStart(s) ==
  IF s # <<>> /\ Head(s) = " " THEN trimStart(Tail(s)) ELSE s

parseInt(str) ==
  LET s == trimStart(str)
      signed == s # <<>> /\ Head(s) \in {"-", "+"}
      body == IF signed THEN Tail(s) ELSE s
      n == digitsValue(body, 0)
  IN IF body = <<>> \/ Head(body) \notin Digits
     THEN [nan |-> TRUE, value |-> 0]
     ELSE [nan |-> FALSE, value |-> IF Head(s) = "-" THEN 0 - n ELSE n]

(* rawFrom, from and fromEventId of the route; a missing or repeated query  *)
(* parameter is not a string and reads as "0"                               *)
fromEventIdOf(query) ==
  LET rawFrom == IF query = <<"absent">> THEN <<"0">> ELSE query
      from == parseInt(rawFrom)
  IN IF ~from.nan /\ from.value >= 0 THEN from.value ELSE 0

RECURSIVE replay_after(_, _)
replay_after(events, fromEventId) ==
  IF events = <<>> THEN <<>>
  ELSE IF Head(events).id > fromEventId
       THEN <<Head(events).id>> \o replay_after(Tail(events), fromEventId)
       ELSE replay_after(Tail(events), fromEventId)

RECURSIVE replay(_, _)
replay(events, fromEventId) ==
  IF events = <<>> THEN <<>>
  ELSE IF Head(events).id >= fromEventId
       THEN <<Head(events).id>> \o replay(Tail(events), fromEventId)
       ELSE replay(Tail(events), fromEventId)

---------------------------------------------------------------------------
(* POST /api/jobs: parseProcessRequest. Strings are sequences of            *)
(* characters; <<"absent">> stands for a field the request does not have.   *)

ABSENT == <<"absent">>

RECURSIVE trimEnd(_)
trimEnd(s) ==
  IF s # <<>> /\ s[Len(s)] = " " THEN trimEnd(SubSeq(s, 1, Len(s) - 1)) ELSE s

trim(s) == trimEnd(trimStart(s))

(* JSON values, as far as the roster is read: an array of items, or some    *)
(* other value; an item is a player object (with the names it has), or some *)
(* other value                                                              *)
JsonArray(items) == [kind |-> "array", items |-> items]
JsonOther == [kind |-> "object", items |-> <<>>]
PlayerItem(playerName, characterName) ==
  [kind |-> "object", playerName |-> playerName, characterName |-> characterName]
NumberItem == [kind |-> "number", playerName |-> ABSENT, characterName |-> ABSENT]

(* JSON.parse on the texts the clients send: throws on a text that is not   *)
(* JSON                                                                     *)
JSONparse(text) ==
  CASE text = "[]" -> [threw |-> FALSE, value |-> JsonArray(<<>>)]
    [] text = "[42]" -> [threw |-> FALSE, value |-> JsonArray(<<NumberItem>>)]
    [] text = "[{}]" ->
         [threw |-> FALSE, value |-> JsonArray(<<PlayerItem(ABSENT, ABSENT)>>)]
    [] text = "[{\"playerName\":\"Ann\"},{\"playerName\":\" \"}]" ->
         [threw |-> FALSE,
          value |-> JsonArray(<<PlayerItem(<<"A", "n", "n">>, ABSENT),
                                PlayerItem(<<" ">>, ABSENT)>>)]
    [] text = "{}" -> [threw |-> FALSE, value |-> JsonOther]
    [] OTHER -> [threw |-> TRUE, value |-> JsonOther]

(* parsePlayerDraft: null for a value that is no object or has no name *)
parsePlayerDraft(value) ==
  LET playerName == IF value.playerName = ABSENT THEN <<>> ELSE value.playerName
      characterName ==
        IF value.characterName = ABSENT THEN <<>> ELSE value.characterName
  IN IF value.kind # "object" THEN <<>>
     ELSE IF trim(playerName) = <<>> /\ trim(characterName) = <<>> THEN <<>>
     ELSE <<[playerName |-> trim(playerName),
             characterName |-> trim(characterName)]>>

RECURSIVE parsePlayers(_)
parsePlayers(items) ==
  IF items = <<>> THEN <<>>
  ELSE parsePlayerDraft(Head(items)) \o parsePlayers(Tail(items))

Rejected(message) ==
  [ok |-> FALSE, status |-> 400, message |-> message,
   input |-> [rawTranscript |-> <<>>, playerInfo |-> <<>>]]

parseProcessRequest_anyTranscript(req) ==
  LET transcriptText ==
        IF req.file # ABSENT THEN req.file
        ELSE IF req.transcript # ABSENT THEN req.transcript
        ELSE <<>>
      parsed == IF req.playerInfo.kind = "string"
                THEN JSONparse(req.playerInfo.text)
                ELSE [threw |-> FALSE,
                      value |-> IF req.playerInfo.kind = "absent"
                                THEN JsonArray(<<>>)
                                ELSE req.playerInfo.value]
  IN IF parsed.threw
     THEN Rejected("playerInfo invalide (JSON attendu).")
     ELSE IF parsed.value.kind # "array"
     THEN Rejected("playerInfo invalide (tableau attendu).")
     ELSE [ok |-> TRUE, status |-> 202, message |-> "",
           input |-> [rawTranscript |-> transcriptText,
                      playerInfo |-> parsePlayers(parsed.value.items)]]

(* a request: the uploaded file, body.transcript, and body.playerInfo,      *)
(* which is absent, a string (JSON text) or an already parsed JSON value    *)
parseProcessRequest(req) ==
  LET transcriptText ==
        IF req.file # ABSENT THEN req.file
        ELSE IF req.transcript # ABSENT THEN req.transcript
        ELSE <<>>
      parsed == IF req.playerInfo.kind = "string"
                THEN JSONparse(req.playerInfo.text)
                ELSE [threw |-> FALSE,
                      value |-> IF req.playerInfo.kind = "absent"
                                THEN JsonArray(<<>>)
                                ELSE req.playerInfo.value]
  IN IF trim(transcriptText) = <<>>
     THEN Rejected("Aucun transcript fourni.")
     ELSE IF parsed.threw
     THEN Rejected("playerInfo invalide (JSON attendu).")
     ELSE IF parsed.value.kind # "array"
     THEN Rejected("playerInfo invalide (tableau attendu).")
     ELSE [ok |-> TRUE, status |-> 202, message |-> "",
           input |-> [rawTranscript |-> transcriptText,
                      playerInfo |-> parsePlayers(parsed.value.items)]]

---------------------------------------------------------------------------
(* Workflow state and nodes (graph/state.ts, agents, graph/workflow.ts) *)

SceneTypes == {"narrative", "meta", "pause"}

isNarrative_metaOnly(type) == type # "meta"

isNarrative(type) == type # "meta" /\ type # "pause"

(* scenes.find((s) => s.id === id): the first scene with that id *)
hasScene(scenes, id) == \E i \in DOMAIN scenes : scenes[i].id = id
findScene(scenes, id) ==
  scenes[CHOOSE i \in DOMAIN scenes :
           scenes[i].id = id /\ \A k \in 1 .. i - 1 : scenes[k].id # id]

RECURSIVE narrativeIds(_)
narrativeIds(scenes) ==
  IF scenes = <<>> THEN <<>>
  ELSE IF isNarrative(Head(scenes).type)
       THEN <<Head(scenes).id>> \o narrativeIds(Tail(scenes))
       ELSE narrativeIds(Tail(scenes))

chunkArray_whole(arr, size) == IF arr = <<>> THEN <<>> ELSE <<arr>>

RECURSIVE chunkArray(_, _)
chunkArray(arr, size) ==
  IF arr = <<>> THEN <<>>
  ELSE IF Len(arr) <= size THEN <<arr>>
  ELSE <<SubSeq(arr, 1, size)>> \o chunkArray(SubSeq(arr, size + 1, Len(arr)), size)

RECURSIVE flatten(_)
flatten(ss) == IF ss = <<>> THEN <<>> ELSE Head(ss) \o flatten(Tail(ss))

(* the sceneSummaries reducer: merge by sceneId, b over a, sorted by id *)
lastOf(s, id) ==
  s[CHOOSE i \in DOMAIN s :
      s[i].sceneId = id /\ \A k \in i + 1 .. Len(s) : s[k].sceneId # id]

RECURSIVE pickById(_, _, _)
pickById(ids, a, b) ==
  IF ids = <<>> THEN <<>>
  ELSE <<IF \E i \in DOMAIN b : b[i].sceneId = Head(ids)
         THEN lastOf(b, Head(ids)) ELSE lastOf(a, Head(ids))>>
       \o pickById(Tail(ids), a, b)

sceneSummariesReducer_append(a, b) == a \o b

(* the same without the final sort: the insertion order of the map *)
sceneSummariesReducer_unsorted(a, b) ==
  pickById(Dedup([i \in DOMAIN a |-> a[i].sceneId]
                 \o [i \in DOMAIN b |-> b[i].sceneId]), a, b)

sceneSummariesReducer(a, b) ==
  pickById(SortedSeq({x.sceneId : x \in Range(a) \cup Range(b)}), a, b)

(* summarizerNode: the ids it works from, and the scenes it processes *)
summarizerPending_all(st) == narrativeIds(st.scenes)

summarizerPending(st) ==
  IF Len(st.pendingSceneIds) > 0 THEN st.pendingSceneIds
  ELSE narrativeIds(st.scenes)

RECURSIVE keepNarrative_found(_, _)
keepNarrative_found(ids, scenes) ==
  IF ids = <<>> THEN <<>>
  ELSE IF hasScene(scenes, Head(ids))
       THEN <<Head(ids)>> \o keepNarrative_found(Tail(ids), scenes)
       ELSE keepNarrative_found(Tail(ids), scenes)

RECURSIVE keepNarrative(_, _)
keepNarrative(ids, scenes) ==
  IF ids = <<>> THEN <<>>
  ELSE IF hasScene(scenes, Head(ids))
          /\ isNarrative(findScene(scenes, Head(ids)).type)
       THEN <<Head(ids)>> \o keepNarrative(Tail(ids), scenes)
       ELSE keepNarrative(Tail(ids), scenes)

scenesToProcess(st) == keepNarrative(summarizerPending(st), st.scenes)

(* validatorNode: the scenes it validates and the issues it carries over *)
revalidating(st) == st.retryCount > 0 /\ Len(st.pendingSceneIds) > 0

RECURSIVE keepIn(_, _)
keepIn(ids, S) ==
  IF ids = <<>> THEN <<>>
  ELSE IF Head(ids) \in S THEN <<Head(ids)>> \o keepIn(Tail(ids), S)
  ELSE keepIn(Tail(ids), S)

RECURSIVE summaryIds(_)
summaryIds(sums) ==
  IF sums = <<>> THEN <<>> ELSE <<Head(sums).sceneId>> \o summaryIds(Tail(sums))

scenesWithSummaries(st) ==
  LET narr == keepNarrative(summaryIds(st.sceneSummaries), st.scenes)
  IN IF revalidating(st) THEN keepIn(narr, Range(st.pendingSceneIds)) ELSE narr

RECURSIVE issuesNotOf(_, _)
issuesNotOf(issues, S) ==
  IF issues = <<>> THEN <<>>
  ELSE IF Head(issues).sceneId \notin S
       THEN <<Head(issues)>> \o issuesNotOf(Tail(issues), S)
       ELSE issuesNotOf(Tail(issues), S)

carriedIssues_all(st) ==
  IF revalidating(st) THEN st.issues ELSE <<>>

carriedIssues(st) ==
  IF revalidating(st) THEN issuesNotOf(st.issues, Range(st.pendingSceneIds))
  ELSE <<>>

RECURSIVE errorIds(_)
errorIds(issues) ==
  IF issues = <<>> THEN <<>>
  ELSE IF Head(issues).severity = "error"
       THEN <<Head(issues).sceneId>> \o errorIds(Tail(issues))
       ELSE errorIds(Tail(issues))

hasErrors(issues) == \E i \in DOMAIN issues : issues[i].severity = "error"

validatorUpdate_countsRetries(st, aggregatedIssues) ==
  LET pendingSceneIds ==
        IF hasErrors(aggregatedIssues) THEN Dedup(errorIds(aggregatedIssues))
        ELSE <<>>
      retried == Len(pendingSceneIds) > 0 /\ st.retryCount + 1 < MAX_RETRIES
  IN [st EXCEPT
        !.issues = aggregatedIssues,
        !.isValid = ~hasErrors(aggregatedIssues),
        !.retryCount = IF retried THEN st.retryCount + 1 ELSE st.retryCount,
        !.pendingSceneIds = IF retried THEN pendingSceneIds ELSE @]

(* what validatorNode returns, merged into the state (last write wins) *)
validatorUpdate(st, aggregatedIssues) ==
  LET pendingSceneIds ==
        IF hasErrors(aggregatedIssues) THEN Dedup(errorIds(aggregatedIssues))
        ELSE <<>>
  IN [st EXCEPT
        !.issues = aggregatedIssues,
        !.isValid = ~hasErrors(aggregatedIssues),
        !.retryCount = st.retryCount + 1,
        !.pendingSceneIds =
           IF Len(pendingSceneIds) > 0 /\ st.retryCount + 1 < MAX_RETRIES
           THEN pendingSceneIds ELSE @]

validatorRouter_twoMore(st) ==
  IF hasErrors(st.issues) /\ st.retryCount < MAX_RETRIES + 2
  THEN "summarizer" ELSE "formatter"

validatorRouter_backToAnalyst(st) ==
  IF hasErrors(st.issues) /\ st.retryCount < MAX_RETRIES
  THEN "analyst" ELSE "formatter"

validatorRouter(st) ==
  IF hasErrors(st.issues) /\ st.retryCount < MAX_RETRIES
  THEN "summarizer" ELSE "formatter"

wrapperRetries_ownLimit(st) ==
  ~st.isValid /\ st.retryCount < WRAPPER_RETRY_LIMIT + 1
  /\ Len(Dedup(errorIds(st.issues))) > 0

(* handleUpdateChunk, case "validator": what the wrapper announces next *)
wrapperRetries(st) ==
  ~st.isValid /\ st.retryCount < WRAPPER_RETRY_LIMIT
  /\ Len(Dedup(errorIds(st.issues))) > 0

retryScenes(st) == keepIn(st.cache, Range(errorIds(st.issues)))

InitPipe ==
  [pc |-> "preprocessor", entered |-> FALSE,
   scenes |-> <<>>, pendingSceneIds |-> <<>>, sceneSummaries |-> <<>>,
   issues |-> <<>>, isValid |-> TRUE, retryCount |-> 0,
   cache |-> <<>>,
   batch |-> <<>>, slots |-> <<>>, results |-> <<>>, todo |-> <<>>, acc |-> <<>>,
   \* history kept for the properties
   sumPasses |-> 0, valPasses |-> 0, backEdges |-> 0,
   invoked |-> <<>>, retryE |-> {},
   raised |-> {}, produced |-> {}, resolvedIds |-> {}]

---------------------------------------------------------------------------
(* Responses other than the 202 and the streams *)
NoBody ==
  [status |-> NULL, createdAt |-> 0, updatedAt |-> 0, playersCount |-> 0,
   error |-> NULL]
NoRequest ==
  [file |-> ABSENT, transcript |-> ABSENT,
   playerInfo |-> [kind |-> "absent", text |-> "", value |-> JsonOther]]
NoReply ==
  [route |-> "none", req |-> NoRequest, id |-> 0, code |-> 0, body |-> NoBody,
   status |-> ABSENT, list |-> <<>>]

---------------------------------------------------------------------------
(* Initial state: the server has started, no job yet *)
Init ==
  /\ jobs = <<>>
  /\ processJobs = {}
  /\ pipe = <<>>
  /\ streams = <<>>
  /\ accepted = <<>>
  /\ reply = NoReply
  /\ now = 0
  /\ ticks = 0

W0 == World(jobs, streams)

(* runProcessJob after the stream has ended: status completed, then "done" *)
completeRun_doneFirst(w, j, t, F) ==
  setProcessJobStatus(
    publishProcessJobEvent(w, j, "done", "done", <<>>, "Traitement termine.", t, F),
    j, "completed", NULL, t)

completeRun(w, j, t, F) ==
  publishProcessJobEvent(setProcessJobStatus(w, j, "completed", NULL, t),
                         j, "done", "done", <<>>, "Traitement termine.", t, F)

failRun_quiet(w, j, t, F) ==
  setProcessJobStatus([w EXCEPT !.threw = FALSE], j, "failed", w.msg, t)

(* the catch block of runProcessJob: status failed with the message, then   *)
(* "error"                                                                  *)
failRun(w, j, t, F) ==
  publishProcessJobEvent(
    setProcessJobStatus([w EXCEPT !.threw = FALSE], j, "failed", w.msg, t),
    j, "error", "error", <<>>, w.msg, t, F)

(* The rest of runProcessJob once a chunk has been handled, for a world w   *)
(* and workflow state p: at the end of the stream (final) the completion,   *)
(* on an exception the catch block, and after either the finally. The       *)
(* listeners of F1 raise on "done", those of F2 on "error".                 *)
Outcome(j, w, p, final, F1, F2) ==
  LET wDone == IF final /\ ~w.threw THEN completeRun(w, j, now, F1) ELSE w
      wEnd == IF wDone.threw THEN failRun(wDone, j, now, F2) ELSE wDone
      pc == IF wEnd.threw THEN "rejected"
            ELSE IF wDone.threw THEN "failed"
            ELSE IF final THEN "completed"
            ELSE p.pc
  IN /\ jobs' = wEnd.jobs
     /\ streams' = wEnd.streams
     /\ pipe' = [pipe EXCEPT ![j] = [p EXCEPT !.pc = pc]]
     /\ processJobs' = IF wDone.threw \/ final
                       THEN cleanupProcessJobs(wEnd.jobs, processJobs, now)
                       ELSE processJobs
     /\ UNCHANGED <<accepted, reply, now, ticks>>

Running(j) ==
  /\ j \in DOMAIN pipe
  /\ pipe[j].pc \in {"preprocessor", "analyst", "summarizer", "validator",
                     "formatter"}

(* the same with the start of the run put off to a later turn of the loop *)
PostJob_startsLater(req) ==
  /\ Len(jobs) < MaxJobs
  /\ parseProcessRequest(req).ok
  /\ LET id == Len(jobs) + 1
         kept == cleanupProcessJobs(jobs, processJobs, now)
         input == parseProcessRequest(req).input
         w1 == World(Append(jobs, createProcessJob(input, now)), streams)
     IN /\ jobs' = w1.jobs
        /\ streams' = w1.streams
        /\ processJobs' = kept \cup {id}
        /\ pipe' = Append(pipe, InitPipe)
        /\ accepted' = Append(accepted,
                              [code |-> 202, req |-> req,
                               body |-> toProcessJobSummary(w1.jobs[id]),
                               logLen |-> Len(w1.jobs[id].events)])
  /\ UNCHANGED <<reply, now, ticks>>

(* POST /api/jobs with a valid body: createProcessJob, the synchronous      *)
(* start of runProcessJob (up to its first await), then the 202 response    *)
PostJob(req) ==
  /\ Len(jobs) < MaxJobs
  /\ parseProcessRequest(req).ok
  /\ LET id == Len(jobs) + 1
         kept == cleanupProcessJobs(jobs, processJobs, now)
         input == parseProcessRequest(req).input
         w1 == World(Append(jobs, createProcessJob(input, now)), streams)
         w2 == setProcessJobStatus(w1, id, "running", NULL, now)
         w3 == publishProcessJobEvent(w2, id, "step:start", "preprocessor",
                                      <<>>, NULL, now, {})
     IN /\ jobs' = w3.jobs
        /\ streams' = w3.streams
        /\ processJobs' = kept \cup {id}
        /\ pipe' = Append(pipe, InitPipe)
        /\ accepted' = Append(accepted,
                              [code |-> 202, req |-> req,
                               body |-> toProcessJobSummary(w3.jobs[id]),
                               logLen |-> Len(w3.jobs[id].events)])
  /\ UNCHANGED <<reply, now, ticks>>

(* POST /api/jobs with a body parseProcessRequest refuses: the response,    *)
(* and nothing else                                                         *)
PostRejected(req) ==
  /\ ~parseProcessRequest(req).ok
  /\ reply' = [route |-> "POST /api/jobs", req |-> req, id |-> 0,
               code |-> parseProcessRequest(req).status, body |-> NoBody,
               status |-> ABSENT, list |-> <<>>]
  /\ UNCHANGED <<jobs, processJobs, pipe, streams, accepted, now, ticks>>

(* GET /api/jobs/:id *)
GetJob(id) ==
  /\ LET kept == cleanupProcessJobs(jobs, processJobs, now)
     IN /\ processJobs' = kept
        /\ reply' = IF id \in kept
                    THEN [route |-> "GET /api/jobs/:id", req |-> NoRequest,
                          id |-> id, code |-> 200,
                          body |-> toProcessJobSummary(jobs[id]),
                          status |-> ABSENT, list |-> <<>>]
                    ELSE [route |-> "GET /api/jobs/:id", req |-> NoRequest,
                          id |-> id, code |-> 404, body |-> NoBody,
                          status |-> ABSENT, list |-> <<>>]
  /\ UNCHANGED <<jobs, pipe, streams, accepted, now, ticks>>

(* GET /api/jobs?status=query. The query is a string of words, commas and  *)
(* spaces; a status name is one word.                                       *)
allowedStatuses == <<"pending", "running", "completed", "failed">>

RECURSIVE split(_, _)
split(s, sep) ==
  IF \A i \in DOMAIN s : s[i] # sep THEN <<s>>
  ELSE LET k == CHOOSE i \in DOMAIN s :
                  s[i] = sep /\ \A m \in 1 .. i - 1 : s[m] # sep
       IN <<SubSeq(s, 1, k - 1)>> \o split(SubSeq(s, k + 1, Len(s)), sep)

RECURSIVE requestedStatusesOf(_)
requestedStatusesOf(items) ==
  IF items = <<>> THEN <<>>
  ELSE LET word == trim(Head(items))
       IN (IF Len(word) = 1 /\ word[1] \in Range(allowedStatuses)
           THEN <<word[1]>> ELSE <<>>)
          \o requestedStatusesOf(Tail(items))

RECURSIVE filterByStatus(_, _, _)
filterByStatus(js, ids, requestedStatuses) ==
  IF ids = <<>> THEN <<>>
  ELSE (IF requestedStatuses # <<>>
           => js[Head(ids)].status \in Range(requestedStatuses)
        THEN <<Head(ids)>> ELSE <<>>)
       \o filterByStatus(js, Tail(ids), requestedStatuses)

(* the values of the map, in insertion order *)
RECURSIVE mapValues(_, _)
mapValues(keys, n) ==
  IF n = 0 THEN <<>>
  ELSE mapValues(keys, n - 1) \o (IF n \in keys THEN <<n>> ELSE <<>>)

(* Array.prototype.sort with (a, b) => b.createdAt.localeCompare(a.createdAt): *)
(* stable, jobs created at the same instant keep their order                 *)
RECURSIVE sortNewestFirst(_, _)
sortNewestFirst(js, ids) ==
  IF ids = <<>> THEN <<>>
  ELSE LET rest == sortNewestFirst(js, SubSeq(ids, 1, Len(ids) - 1))
           x == ids[Len(ids)]
           before == SelectSeq(rest, LAMBDA y : js[y].createdAt >= js[x].createdAt)
           after == SelectSeq(rest, LAMBDA y : js[y].createdAt < js[x].createdAt)
       IN before \o <<x>> \o after

RECURSIVE summaries(_, _)
summaries(js, ids) ==
  IF ids = <<>> THEN <<>>
  ELSE <<[id |-> Head(ids), summary |-> toProcessJobSummary(js[Head(ids)])]>>
       \o summaries(js, Tail(ids))

ListJobs(query) ==
  /\ LET kept == cleanupProcessJobs(jobs, processJobs, now)
         queryStatus == IF query = ABSENT THEN <<>> ELSE query
         requestedStatuses == requestedStatusesOf(split(queryStatus, ","))
         found == sortNewestFirst(jobs,
                    filterByStatus(jobs, mapValues(kept, Len(jobs)),
                                   requestedStatuses))
     IN /\ processJobs' = kept
        /\ reply' = [route |-> "GET /api/jobs", req |-> NoRequest, id |-> 0,
                     code |-> 200, body |-> NoBody,
                     status |-> query, list |-> summaries(jobs, found)]
  /\ UNCHANGED <<jobs, pipe, streams, accepted, now, ticks>>

GetStream_alwaysLive(id, query, limit) ==
  /\ Len(streams) < limit
  /\ LET kept == cleanupProcessJobs(jobs, processJobs, now)
         sid == Len(streams) + 1
         fromEventId == fromEventIdOf(query)
         base == [job |-> id, query |-> query, from |-> fromEventId,
                  code |-> 200, received |-> <<>>, closed |-> FALSE,
                  heartbeat |-> FALSE, ended |-> FALSE,
                  detached |-> FALSE, inLog |-> TRUE,
                  \* the runs of cleanup past its guard, the close events fired
                  torn |-> 0, closes |-> 0,
                  after |-> {s \in DOMAIN streams : streams[s].detached}]
     IN /\ processJobs' = kept
        /\ IF id \notin kept
           THEN /\ streams' = Append(streams,
                     [base EXCEPT !.code = 404, !.ended = TRUE])
                /\ UNCHANGED jobs
           ELSE /\ streams' = Append(streams,
                     [base EXCEPT !.received = replay(jobs[id].events, fromEventId),
                                  !.heartbeat = TRUE])
                /\ jobs' = [jobs EXCEPT ![id].listeners = Append(@, sid)]
  /\ UNCHANGED <<pipe, accepted, reply, now, ticks>>

(* GET /api/jobs/:id/stream?from=query *)
GetStream(id, query, limit) ==
  /\ Len(streams) < limit
  /\ LET kept == cleanupProcessJobs(jobs, processJobs, now)
         sid == Len(streams) + 1
         fromEventId == fromEventIdOf(query)
         base == [job |-> id, query |-> query, from |-> fromEventId,
                  code |-> 200, received |-> <<>>, closed |-> FALSE,
                  heartbeat |-> FALSE, ended |-> FALSE,
                  \* history kept for the properties: closed by the client,
                  \* and the streams the client had closed when this one opened
                  detached |-> FALSE, inLog |-> TRUE,
                  \* the runs of cleanup past its guard, the close events fired
                  torn |-> 0, closes |-> 0,
                  after |-> {s \in DOMAIN streams : streams[s].detached}]
     IN /\ processJobs' = kept
        /\ IF id \notin kept
           THEN /\ streams' = Append(streams,
                     [base EXCEPT !.code = 404, !.ended = TRUE])
                /\ UNCHANGED jobs
           ELSE LET got == replay(jobs[id].events, fromEventId)
                    opened == [base EXCEPT !.received = got]
                IN IF isTerminalJobStatus(jobs[id].status)
                   THEN /\ streams' = Append(streams,
                                             [opened EXCEPT !.ended = TRUE])
                        /\ UNCHANGED jobs
                   ELSE /\ streams' = Append(streams,
                                       [opened EXCEPT !.heartbeat = TRUE])
                        /\ jobs' = [jobs EXCEPT ![id].listeners = Append(@, sid)]
  /\ UNCHANGED <<pipe, accepted, reply, now, ticks>>

(* "close" on the request or the response of a live stream: cleanup *)
CloseStream(s) ==
  /\ s \in DOMAIN streams
  /\ streams[s].heartbeat
  /\ ~streams[s].closed
  /\ LET w == cleanup(W0, s)
     IN /\ jobs' = w.jobs
        /\ streams' = [w.streams EXCEPT ![s].detached = TRUE, ![s].closes = @ + 1]
  /\ UNCHANGED <<processJobs, pipe, accepted, reply, now, ticks>>

(* "close" on the request or the response of a stream that went live, once  *)
(* cleanup has run (after the other close, or after the terminal event):    *)
(* cleanup again. Each of the two fires once.                               *)
CloseAgain(s) ==
  /\ s \in DOMAIN streams
  /\ streams[s].closed
  /\ streams[s].closes < 2
  /\ LET w == cleanup(W0, s)
     IN /\ jobs' = w.jobs
        /\ streams' = [w.streams EXCEPT ![s].closes = @ + 1]
  /\ UNCHANGED <<processJobs, pipe, accepted, reply, now, ticks>>

(* time passes *)
Tick(d) ==
  /\ ticks < MaxTicks
  /\ now' = now + d
  /\ ticks' = ticks + 1
  /\ UNCHANGED <<jobs, processJobs, pipe, streams, accepted, reply>>

(* a stage executor raises (preprocessor, analyst or formatter) *)
StageFail(j, F2) ==
  /\ Running(j)
  /\ pipe[j].pc \in {"preprocessor", "analyst", "formatter"}
  /\ Outcome(j, Throw(W0, "stage"),
             [pipe[j] EXCEPT !.raised = @ \cup {"stage"}], FALSE, {}, F2)

(* the preprocessor node returns: handleUpdateChunk, case "preprocessor" *)
PreprocessorDone(j, F, F2) ==
  /\ Running(j)
  /\ pipe[j].pc = "preprocessor"
  /\ LET w == publishAll(W0, j,
                <<Ev("step:complete", "preprocessor", <<>>),
                  Ev("step:start", "analyst", <<>>)>>, now, F)
     IN Outcome(j, w, [pipe[j] EXCEPT !.pc = "analyst"], FALSE, F, F2)

(* analystNode returns the scenes; handleUpdateChunk, case "analyst" *)
AnalystDone(j, scenes, F, F2) ==
  /\ Running(j)
  /\ pipe[j].pc = "analyst"
  /\ LET narr == narrativeIds(scenes)
         p == [pipe[j] EXCEPT !.pc = "summarizer", !.entered = FALSE,
                              !.scenes = scenes, !.pendingSceneIds = narr,
                              !.cache = narr]
         w == publishAll(W0, j,
                <<Ev("step:complete", "analyst", <<>>),
                  Ev("step:start", "summarizer", <<>>),
                  Ev("step:scenes", "summarizer", narr)>>, now, F)
     IN Outcome(j, w, p, FALSE, F, F2)

RECURSIVE sceneEvents(_, _, _)
sceneEvents(type, step, ids) ==
  IF ids = <<>> THEN <<>>
  ELSE <<Ev(type, step, <<Head(ids)>>)>> \o sceneEvents(type, step, Tail(ids))

sceneStep(pc) == IF pc = "summarizer" THEN "summarizer_scene" ELSE "validator_scene"

(* a node starts a batch: every unit emits its start event and awaits *)
startBatch(p, batches) ==
  IF batches = <<>>
  THEN [p EXCEPT !.batch = <<>>, !.slots = <<>>, !.results = <<>>, !.todo = <<>>]
  ELSE [p EXCEPT !.batch = Head(batches),
                 !.slots = [i \in DOMAIN Head(batches) |-> "flight"],
                 !.results = [i \in DOMAIN Head(batches) |-> <<>>],
                 !.todo = Tail(batches),
                 !.invoked = @ \o Head(batches)]

(* summarizerNode runs up to its first await *)
SummarizerEnter(j, F, F2) ==
  /\ Running(j)
  /\ pipe[j].pc = "summarizer"
  /\ ~pipe[j].entered
  /\ LET st == pipe[j]
         batches == chunkArray(scenesToProcess(st), SCENE_CONCURRENCY)
         p == startBatch([st EXCEPT !.entered = TRUE, !.acc = <<>>,
                                    !.invoked = <<>>, !.resolvedIds = {},
                                    !.sumPasses = @ + 1], batches)
         w == publishAll(W0, j,
                sceneEvents("step:start", "summarizer_scene", p.batch), now, F)
     IN Outcome(j, w, p, FALSE, F, F2)

(* validatorNode runs up to its first await *)
ValidatorEnter(j, F, F2) ==
  /\ Running(j)
  /\ pipe[j].pc = "validator"
  /\ ~pipe[j].entered
  /\ LET st == pipe[j]
         batches == chunkArray(scenesWithSummaries(st), VALIDATION_CONCURRENCY)
         p == startBatch([st EXCEPT !.entered = TRUE,
                                    !.acc = carriedIssues(st),
                                    !.invoked = <<>>, !.resolvedIds = {},
                                    !.produced = {}], batches)
         w == publishAll(W0, j,
                sceneEvents("step:start", "validator_scene", p.batch), now, F)
     IN Outcome(j, w, p, FALSE, F, F2)

IssueChoices == {<<>>, <<"warning">>, <<"error">>}

(* the same without the scene id: the issues as the model call gives them *)
tagIssues_untagged(sevs, id) ==
  [i \in DOMAIN sevs |-> [sceneId |-> 0, severity |-> sevs[i]]]

RECURSIVE tagIssues(_, _)
tagIssues(sevs, id) ==
  IF sevs = <<>> THEN <<>>
  ELSE <<[sceneId |-> id, severity |-> Head(sevs)]>> \o tagIssues(Tail(sevs), id)

UnitResolve_nextAtOnce(j, i, sevs, F, F2) ==
  /\ Running(j)
  /\ pipe[j].pc \in {"summarizer", "validator"}
  /\ pipe[j].entered
  /\ i \in DOMAIN pipe[j].batch
  /\ pipe[j].slots[i] = "flight"
  /\ pipe[j].pc = "summarizer" => sevs = <<>>
  /\ LET st == pipe[j]
         id == st.batch[i]
         result == IF st.pc = "summarizer"
                   THEN <<[sceneId |-> id, pass |-> st.sumPasses]>>
                   ELSE tagIssues(sevs, id)
         p1 == [st EXCEPT
                  !.slots[i] = "resolved", !.results[i] = result,
                  !.resolvedIds = @ \cup {id},
                  !.produced = IF st.pc = "validator"
                               THEN @ \cup {[sceneId |-> id, issues |-> result]}
                               ELSE @]
         allDone == TRUE
         p2 == IF allDone
               THEN startBatch([p1 EXCEPT !.acc = @ \o flatten(p1.results)],
                               p1.todo)
               ELSE p1
         w == publishAll(W0, j,
                <<Ev("step:complete", sceneStep(st.pc), <<id>>)>>
                \o (IF allDone
                    THEN sceneEvents("step:start", sceneStep(st.pc), p2.batch)
                    ELSE <<>>), now, F)
     IN Outcome(j, w, p2, FALSE, F, F2)

(* one unit call of the current batch resolves; when it is the last of the  *)
(* batch, Promise.all resolves and the next batch starts                    *)
UnitResolve(j, i, sevs, F, F2) ==
  /\ Running(j)
  /\ pipe[j].pc \in {"summarizer", "validator"}
  /\ pipe[j].entered
  /\ i \in DOMAIN pipe[j].batch
  /\ pipe[j].slots[i] = "flight"
  /\ pipe[j].pc = "summarizer" => sevs = <<>>
  /\ LET st == pipe[j]
         id == st.batch[i]
         result == IF st.pc = "summarizer"
                   THEN <<[sceneId |-> id, pass |-> st.sumPasses]>>
                   ELSE tagIssues(sevs, id)
         p1 == [st EXCEPT
                  !.slots[i] = "resolved", !.results[i] = result,
                  !.resolvedIds = @ \cup {id},
                  !.produced = IF st.pc = "validator"
                               THEN @ \cup {[sceneId |-> id, issues |-> result]}
                               ELSE @]
         allDone == \A k \in DOMAIN p1.slots : p1.slots[k] = "resolved"
         p2 == IF allDone
               THEN startBatch([p1 EXCEPT !.acc = @ \o flatten(p1.results)],
                               p1.todo)
               ELSE p1
         w == publishAll(W0, j,
                <<Ev("step:complete", sceneStep(st.pc), <<id>>)>>
                \o (IF allDone
                    THEN sceneEvents("step:start", sceneStep(st.pc), p2.batch)
                    ELSE <<>>), now, F)
     IN Outcome(j, w, p2, FALSE, F, F2)

(* one unit call of the current batch rejects: Promise.all rejects, the     *)
(* node and the stream fail; the other calls of the batch stay in flight    *)
UnitReject(j, i, F2) ==
  /\ Running(j)
  /\ pipe[j].pc \in {"summarizer", "validator"}
  /\ pipe[j].entered
  /\ i \in DOMAIN pipe[j].batch
  /\ pipe[j].slots[i] = "flight"
  /\ Outcome(j, Throw(W0, "unit"),
             [pipe[j] EXCEPT !.slots[i] = "rejected",
                             !.raised = @ \cup {"unit"}],
             FALSE, {}, F2)

(* the same if the event of the late call were still published *)
OrphanSettle_publishes(j, i) ==
  /\ j \in DOMAIN pipe
  /\ pipe[j].pc \in {"failed", "rejected"}
  /\ i \in DOMAIN pipe[j].slots
  /\ pipe[j].slots[i] = "flight"
  /\ LET w == publishProcessJobEvent(W0, j, "step:complete", "summarizer_scene",
                                     <<pipe[j].batch[i]>>, NULL, now, {})
     IN /\ jobs' = w.jobs
        /\ streams' = w.streams
  /\ pipe' = [pipe EXCEPT ![j].slots[i] = "orphan"]
  /\ UNCHANGED <<processJobs, accepted, reply, now, ticks>>

(* a unit call left in flight by a failed run settles: its writer has no    *)
(* stream left and nothing is published                                     *)
OrphanSettle(j, i) ==
  /\ j \in DOMAIN pipe
  /\ pipe[j].pc \in {"failed", "rejected"}
  /\ i \in DOMAIN pipe[j].slots
  /\ pipe[j].slots[i] = "flight"
  /\ pipe' = [pipe EXCEPT ![j].slots[i] = "orphan"]
  /\ UNCHANGED <<jobs, processJobs, streams, accepted, reply, now, ticks>>

(* summarizerNode returns; handleUpdateChunk, case "summarizer" *)
SummarizerReturn(j, F, F2) ==
  /\ Running(j)
  /\ pipe[j].pc = "summarizer"
  /\ pipe[j].entered
  /\ pipe[j].batch = <<>>
  /\ LET st == pipe[j]
         p == [st EXCEPT
                 !.sceneSummaries = sceneSummariesReducer(@, st.acc),
                 !.pendingSceneIds = summarizerPending(st),
                 !.pc = "validator", !.entered = FALSE]
         w == publishAll(W0, j,
                <<Ev("step:complete", "summarizer", <<>>),
                  Ev("step:start", "validator", <<>>),
                  Ev("step:scenes", "validator", st.cache)>>, now, F)
     IN Outcome(j, w, p, FALSE, F, F2)

(* validatorNode returns, the router picks the next node;                   *)
(* handleUpdateChunk, case "validator"                                      *)
ValidatorReturn(j, F, F2) ==
  /\ Running(j)
  /\ pipe[j].pc = "validator"
  /\ pipe[j].entered
  /\ pipe[j].batch = <<>>
  /\ LET st == validatorUpdate(pipe[j], pipe[j].acc)
         next == validatorRouter(st)
         p == [st EXCEPT
                 !.pc = next, !.entered = FALSE,
                 !.valPasses = @ + 1,
                 !.backEdges = IF next = "summarizer" THEN @ + 1 ELSE @,
                 !.retryE = IF next = "summarizer"
                            THEN Range(errorIds(st.issues)) ELSE @]
         w == publishAll(W0, j,
                <<Ev("step:complete", "validator", <<>>)>>
                \o (IF wrapperRetries(st)
                    THEN <<Ev("step:start", "summarizer", <<>>),
                           Ev("step:scenes", "summarizer", retryScenes(st))>>
                    ELSE <<Ev("step:start", "formatter", <<>>)>>), now, F)
     IN Outcome(j, w, p, FALSE, F, F2)

(* formatterNode returns; handleUpdateChunk, case "formatter": between the  *)
(* two events insertReport is called, and an exception it throws is caught  *)
(* and logged there; then the stream ends                                   *)
FormatterDone(j, F, F1, F2) ==
  /\ Running(j)
  /\ pipe[j].pc = "formatter"
  /\ \E saved \in BOOLEAN :
       LET w == publishAll(W0, j,
                  <<Ev("step:complete", "formatter", <<>>),
                    Ev("result", "result", <<>>)>>, now, F)
           p == [pipe[j] EXCEPT
                   !.raised = IF saved THEN @ ELSE @ \cup {"insert"}]
       IN Outcome(j, w, p, TRUE, F1, F2)

---------------------------------------------------------------------------
(* Inputs *)

RECURSIVE SceneLists(_)
SceneLists(n) ==
  IF n = 0 THEN {<<>>}
  ELSE LET shorter == SceneLists(n - 1)
       IN shorter \cup
          {Append(s, [id |-> Len(s) + 1, type |-> t]) :
             s \in {x \in shorter : Len(x) = n - 1}, t \in SceneTypes}

Queries ==
  {<<"absent">>, <<"4">>, <<"-", "1">>, <<"x">>, <<"4", "x">>}

(* the submissions of the clients *)
Body(file, transcript, playerInfo) ==
  [file |-> file, transcript |-> transcript, playerInfo |-> playerInfo]
NoRoster == [kind |-> "absent", text |-> "", value |-> JsonOther]
RosterText(text) == [kind |-> "string", text |-> text, value |-> JsonOther]
RosterValue(value) == [kind |-> "value", text |-> "", value |-> value]
Text == <<"h", "i">>
PlainRequest == Body(Text, ABSENT, NoRoster)
Rosters ==
  {NoRoster, RosterValue(JsonOther), RosterValue(JsonArray(<<NumberItem>>))}
  \cup {RosterText(t) :
          t \in {"[]", "[42]", "[{}]", "{}", "{", "",
                 "[{\"playerName\":\"Ann\"},{\"playerName\":\" \"}]"}}
Requests ==
  {Body(f, t, NoRoster) : f \in {ABSENT, <<>>}, t \in {ABSENT, <<>>, <<" ">>, Text}}
  \cup {Body(ABSENT, Text, r) : r \in Rosters}
  \cup {PlainRequest}

JobIds == 1 .. MaxJobs
StreamIds == 1 .. MaxStreams
Slots == 1 .. SCENE_CONCURRENCY

(* the requests of the clients: at most limit streams, with queries of Q *)
Clients(limit, Q) ==
  \/ \E id \in JobIds, q \in Q : GetStream(id, q, limit)
  \/ \E s \in StreamIds : CloseStream(s)

(* the steps of the runs where every call to the model answers: the        *)
(* analyst answers with a scene list of Menu, a validation call with        *)
(* severities of Sevs; the listeners of F raise while a chunk is handled,   *)
(* those of F2 while the catch block publishes                              *)
Stages(Faults, Menu, Sevs) ==
  \/ \E j \in JobIds, F \in Faults : \E F2 \in {{}, F} : PreprocessorDone(j, F, F2)
  \/ \E j \in JobIds, sc \in Menu, F \in Faults : \E F2 \in {{}, F} :
        AnalystDone(j, sc, F, F2)
  \/ \E j \in JobIds, F \in Faults : \E F2 \in {{}, F} : SummarizerEnter(j, F, F2)
  \/ \E j \in JobIds, F \in Faults : \E F2 \in {{}, F} : ValidatorEnter(j, F, F2)
  \/ \E j \in JobIds, i \in Slots, sevs \in Sevs, F \in Faults : \E F2 \in {{}, F} :
        UnitResolve(j, i, sevs, F, F2)
  \/ \E j \in JobIds, F \in Faults : \E F2 \in {{}, F} : SummarizerReturn(j, F, F2)
  \/ \E j \in JobIds, F \in Faults : \E F2 \in {{}, F} : ValidatorReturn(j, F, F2)
  \/ \E j \in JobIds, F \in Faults, F1 \in Faults, F2 \in Faults :
        FormatterDone(j, F, F1, F2)

(* the steps where a call to the model fails *)
Failures(Faults) ==
  \/ \E j \in JobIds, F \in Faults : StageFail(j, F)
  \/ \E j \in JobIds, i \in Slots, F \in Faults : UnitReject(j, i, F)

Pipeline(Faults, Menu, Sevs) == Stages(Faults, Menu, Sevs) \/ Failures(Faults)

(* the units of a rejected batch that settle afterwards: a batch of one     *)
(* scene leaves none                                                        *)
Orphans == \E j \in JobIds, i \in Slots : OrphanSettle(j, i)

AllNarrative(n) == [i \in 1 .. n |-> [id |-> i, type |-> "narrative"]]
ManyScenes == {AllNarrative(SCENE_CONCURRENCY + MaxScenes - 1)}
NoIssue == {<<>>}

OneScene == {<<>>, <<[id |-> 1, type |-> "narrative"]>>}
TwoSevs == {<<>>, <<"error">>}
NoFault == {{}}
OneFault == {{}} \cup {{s} : s \in StreamIds}

(* The server and its clients within one retention window. res.write does  *)
(* not throw: no listener raises.                                           *)
Next ==
  \/ (jobs = <<>> /\ PostJob(PlainRequest))
  \/ Clients(MaxStreams, Queries)
  \/ Pipeline(NoFault, OneScene, TwoSevs)
Spec == Init /\ [][Next]_vars

(* The same with listeners as arbitrary callbacks: one may raise on a call *)
NextFault ==
  \/ (jobs = <<>> /\ PostJob(PlainRequest))
  \/ Clients(MaxStreams, {<<"absent">>})
  \/ Pipeline(OneFault, OneScene, TwoSevs)
SpecFault == Init /\ [][NextFault]_vars

(* The server over several retention windows, one stream at a time *)
NextClock ==
  \/ (jobs = <<>> /\ PostJob(PlainRequest))
  \/ \E id \in JobIds : GetJob(id)
  \/ Clients(MaxStreams - 1, {<<"absent">>})
  \/ \E d \in {1, PROCESS_JOB_RETENTION_MS} : Tick(d)
  \/ Pipeline(NoFault, OneScene, TwoSevs)
SpecClock == Init /\ [][NextClock]_vars

(* Submissions of every kind, good and bad, and the runs they start *)
NextSubmit ==
  \/ (jobs = <<>> /\ \E req \in Requests : PostJob(req))
  \/ \E req \in Requests : PostRejected(req)
  \/ Pipeline(NoFault, OneScene, TwoSevs)
SpecSubmit == Init /\ [][NextSubmit]_vars

(* Several jobs and the listing of the registry, over several retention    *)
(* windows; the clock is looked at between the runs                         *)
StatusQueries ==
  {ABSENT, <<"completed", ",", " ", "failed">>, <<"bogus">>}
NextList ==
  \/ PostJob(PlainRequest)
  \/ \E q \in StatusQueries : ListJobs(q)
  \/ ((\A j \in JobIds : ~Running(j)) /\ Tick(PROCESS_JOB_RETENTION_MS + 1))
  \/ Pipeline(NoFault, {AllNarrative(1)}, NoIssue)
SpecList == Init /\ [][NextList]_vars

(* One run alone, on every scene list of up to MaxScenes scenes *)
NextPipe ==
  \/ (jobs = <<>> /\ PostJob(PlainRequest))
  \/ Pipeline(NoFault, SceneLists(MaxScenes), IssueChoices)
  \/ Orphans
SpecPipe == Init /\ [][NextPipe]_vars

(* One run alone where every call to the model answers. The event loop     *)
(* runs the continuation of every settled call: as long as a job is         *)
(* running (a stage step is then possible) steps keep being taken.          *)
NextLive ==
  \/ (jobs = <<>> /\ PostJob(PlainRequest))
  \/ Stages(NoFault, SceneLists(MaxScenes), IssueChoices)
FairRun ==
  \/ []<>(\A j \in JobIds : ~Running(j))
  \/ []<><<NextLive>>_vars
SpecLive == Init /\ [][NextLive]_vars /\ FairRun

(* The server and its clients while every call to the model answers and a  *)
(* running job keeps taking steps                                           *)
NextServe ==
  \/ (jobs = <<>> /\ PostJob(PlainRequest))
  \/ Clients(MaxStreams, {<<"absent">>})
  \/ Stages(NoFault, OneScene, TwoSevs)
FairServe ==
  \/ []<>(\A j \in JobIds : ~Running(j))
  \/ []<><<Stages(NoFault, OneScene, TwoSevs)>>_vars
SpecServe == Init /\ [][NextServe]_vars /\ FairServe

(* The server and its clients while every call to the model answers or    *)
(* fails and a running job keeps taking steps                               *)
NextEnd ==
  \/ (jobs = <<>> /\ PostJob(PlainRequest))
  \/ Clients(MaxStreams, {<<"absent">>})
  \/ Pipeline(NoFault, OneScene, TwoSevs)
FairEnd ==
  \/ []<>(\A j \in JobIds : ~Running(j))
  \/ []<><<Pipeline(NoFault, OneScene, TwoSevs)>>_vars
SpecEnd == Init /\ [][NextEnd]_vars /\ FairEnd

(* Several jobs running at once, each of one scene, and their streams *)
NextPeers ==
  \/ PostJob(PlainRequest)
  \/ Clients(MaxStreams, {<<"absent">>})
  \/ Pipeline(NoFault, {AllNarrative(1)}, NoIssue)
SpecPeers == Init /\ [][NextPeers]_vars

(* One job of one scene, its streams, and the clock *)
NextHub ==
  \/ (jobs = <<>> /\ PostJob(PlainRequest))
  \/ Clients(MaxStreams, {<<"absent">>})
  \/ Tick(1)
  \/ Pipeline(NoFault, {AllNarrative(1)}, NoIssue)
SpecHub == Init /\ [][NextHub]_vars

(* Several jobs, and the clients that list them, read them and stream     *)
(* them while they run                                                      *)
PendingQueries == {<<"pending">>, <<"pending", ",", "running">>}
NextFront ==
  \/ PostJob(PlainRequest)
  \/ \E q \in PendingQueries : ListJobs(q)
  \/ \E id \in JobIds : GetJob(id)
  \/ Clients(MaxStreams - 1, {<<"absent">>})
  \/ Pipeline(NoFault, {AllNarrative(1)}, NoIssue)
SpecFront == Init /\ [][NextFront]_vars

(* One run of two scenes, its streams, and the calls that settle after a   *)
(* failure                                                                  *)
NextOrphan ==
  \/ (jobs = <<>> /\ PostJob(PlainRequest))
  \/ Clients(MaxStreams, {<<"absent">>})
  \/ Pipeline(NoFault, {AllNarrative(2)}, NoIssue)
  \/ Orphans
SpecOrphan == Init /\ [][NextOrphan]_vars

(* One job of one scene, its streams, and every close event of a stream *)
NextClose ==
  \/ (jobs = <<>> /\ PostJob(PlainRequest))
  \/ Clients(MaxStreams, {<<"absent">>})
  \/ \E s \in StreamIds : CloseAgain(s)
  \/ Pipeline(NoFault, {AllNarrative(1)}, NoIssue)
SpecClose == Init /\ [][NextClose]_vars

(* One run alone, on more narrative scenes than a batch holds *)
NextBatch ==
  \/ (jobs = <<>> /\ PostJob(PlainRequest))
  \/ Pipeline(NoFault, ManyScenes, NoIssue)
  \/ Orphans
SpecBatch == Init /\ [][NextBatch]_vars

---------------------------------------------------------------------------
(* Properties *)

Interval(a, b) == [i \in 1 .. (b - a + 1) |-> a + i - 1]
Max(a, b) == IF a >= b THEN a ELSE b
IsPrefix(s, t) == Len(s) <= Len(t) /\ \A i \in DOMAIN s : s[i] = t[i]
Log(j) == jobs[j].events
TerminalEvents(j) == {i \in DOMAIN Log(j) : Log(j)[i].type \in {"done", "error"}}

(* C1: in every job's log the i-th event has id i: the ids are 1, 2, ..., n *)
(* in log order, none skipped, none reused.                                 *)
C1_EventIdsSequential ==
  \A j \in DOMAIN jobs : \A i \in DOMAIN Log(j) : Log(j)[i].id = i

C1_Witness ==
  \E j \in DOMAIN jobs : Len(Log(j)) >= 6 /\ isTerminalJobStatus(jobs[j].status)

(* The value a query string denotes when read as a decimal number *)
AllDigits(s) == s # <<>> /\ \A i \in DOMAIN s : s[i] \in Digits
RECURSIVE Decimal(_)
Decimal(s) ==
  IF s = <<>> THEN 0 ELSE 10 * Decimal(SubSeq(s, 1, Len(s) - 1)) + DigitValue(s[Len(s)])

(* what a subscription with first id k must have been delivered: a prefix   *)
(* of the ids k..n of the log, and all of them unless the client left       *)
Delivered(s, k) ==
  LET want == Interval(Max(k, 1), Len(Log(streams[s].job)))
  IN /\ IsPrefix(streams[s].received, want)
     /\ ~streams[s].detached => streams[s].received = want

(* C2 as stated: a subscription with from=k gets exactly the ids >= k, in   *)
(* order, once each; a from that is missing, not a number, or negative      *)
(* counts as 0.                                                             *)
C2_FromAsStated(q) == IF AllDigits(q) THEN Decimal(q) ELSE 0

C2_Original ==
  \A s \in DOMAIN streams :
    streams[s].code = 200 => Delivered(s, C2_FromAsStated(streams[s].query))

(* C3: a consumer that got 1..m on a stream, closed it, and later opened a  *)
(* stream with from=m+1 on the same job gets m+1..N there: nothing missed,  *)
(* nothing of 1..m again.                                                   *)
C3_ResumeNoGapNoRepeat ==
  \A s \in DOMAIN streams, t \in DOMAIN streams :
    LET m == Len(streams[s].received)
    IN (/\ s \in streams[t].after
        /\ streams[s].job = streams[t].job
        /\ streams[s].code = 200 /\ streams[t].code = 200
        /\ m >= 1 /\ streams[s].received = Interval(1, m)
        /\ AllDigits(streams[t].query) /\ Decimal(streams[t].query) = m + 1)
       => /\ Delivered(t, m + 1)
          /\ \A i \in DOMAIN streams[t].received : streams[t].received[i] > m
          /\ IsPrefix(streams[s].received \o streams[t].received,
                      Interval(1, Len(Log(streams[t].job))))

C3_Witness ==
  \E s \in DOMAIN streams, t \in DOMAIN streams :
    /\ s \in streams[t].after
    /\ streams[s].job = streams[t].job
    /\ streams[s].received = <<1, 2, 3>>
    /\ streams[t].code = 200 /\ streams[t].query = <<"4">>
    /\ streams[t].closed /\ ~streams[t].detached
    /\ isTerminalJobStatus(jobs[streams[t].job].status)
    /\ Len(streams[t].received) >= 3
    /\ streams[s].received \o streams[t].received
         = Interval(1, Len(Log(streams[t].job)))

(* C4: the statuses a job takes are pending, then running, then exactly one *)
(* of completed or failed, also when stages, unit calls or listeners raise. *)
C4_StatusSequence ==
  \A j \in DOMAIN jobs :
    jobs[j].statusLog \in
      {<<"pending">>, <<"pending", "running">>,
       <<"pending", "running", "completed">>,
       <<"pending", "running", "failed">>}

(* C5: a setStatus call on a job that is completed or failed is rejected or *)
(* ignored: status and error are after the call what they were before it.   *)
C5_TerminalStatusKept ==
  \A j \in DOMAIN jobs :
    \A i \in 1 .. Len(jobs[j].statusLog) - 1 :
      isTerminalJobStatus(jobs[j].statusLog[i])
        => /\ jobs[j].statusLog[i + 1] = jobs[j].statusLog[i]
           /\ jobs[j].errorLog[i + 1] = jobs[j].errorLog[i]

(* C6 as stated: the 202 response carries status pending, error null, and   *)
(* the log is empty when the summary is taken.                              *)
C6_Original ==
  \A j \in DOMAIN accepted :
    /\ accepted[j].body.status = "pending"
    /\ accepted[j].body.error = NULL
    /\ accepted[j].logLen = 0

(* C6 amended: the 202 response carries status running and error null, and *)
(* when the summary is taken the log holds one event, the start of the      *)
(* preprocessor with id 1.                                                  *)
C6_Amended ==
  \A j \in DOMAIN accepted :
    /\ accepted[j].code = 202
    /\ accepted[j].body.status = "running"
    /\ accepted[j].body.error = NULL
    /\ accepted[j].logLen = 1
    /\ Log(j)[1].id = 1
    /\ Log(j)[1].type = "step:start"
    /\ Log(j)[1].step = "preprocessor"

C6_Witness == \E j \in DOMAIN accepted : accepted[j].code = 202

(* C7: a job's log holds at most one done or error event, it is the last    *)
(* event, done goes with status completed and error with failed; a job is   *)
(* completed or failed only with that event in its log.                     *)
C7_OneTerminalEvent ==
  \A j \in DOMAIN jobs :
    /\ Cardinality(TerminalEvents(j)) <= 1
    /\ \A i \in TerminalEvents(j) :
         /\ i = Len(Log(j))
         /\ Log(j)[i].type = "done" => jobs[j].status = "completed"
         /\ Log(j)[i].type = "error" => jobs[j].status = "failed"
    /\ jobs[j].status = "completed"
         => Log(j) # <<>> /\ Log(j)[Len(Log(j))].type = "done"
    /\ jobs[j].status = "failed"
         => Log(j) # <<>> /\ Log(j)[Len(Log(j))].type = "error"

C7_Witness ==
  \E j \in DOMAIN jobs :
    /\ jobs[j].status = "completed"
    /\ Log(j)[Len(Log(j))].type = "done"
    /\ Log(j)[Len(Log(j)) - 1].type = "result"

(* the scene start events of the summarize pass under way: those after the  *)
(* last start of the summarizer step                                        *)
LastSummarizerStart(j) ==
  CHOOSE i \in DOMAIN Log(j) :
    /\ Log(j)[i].type = "step:start" /\ Log(j)[i].step = "summarizer"
    /\ \A k \in i + 1 .. Len(Log(j)) :
         ~(Log(j)[k].type = "step:start" /\ Log(j)[k].step = "summarizer")

RECURSIVE SceneStarts(_, _)
SceneStarts(events, step) ==
  IF events = <<>> THEN <<>>
  ELSE (IF Head(events).type = "step:start" /\ Head(events).step = step
        THEN Head(events).scenes ELSE <<>>)
       \o SceneStarts(Tail(events), step)

PassStarts(j) ==
  SceneStarts(SubSeq(Log(j), LastSummarizerStart(j), Len(Log(j))),
              "summarizer_scene")

(* C8: in a Summarize pass entered from Validate, with E the scenes that    *)
(* carried an error-severity issue, the unit function is invoked and a      *)
(* start event emitted once for each scene of E and for no other scene.     *)
C8_RetryProcessesErrorScenes ==
  \A j \in DOMAIN pipe :
    (/\ pipe[j].pc = "summarizer" /\ pipe[j].entered
     /\ pipe[j].backEdges > 0 /\ pipe[j].todo = <<>>)
    => /\ pipe[j].retryE # {}
       /\ Range(pipe[j].invoked) = pipe[j].retryE
       /\ Len(pipe[j].invoked) = Cardinality(pipe[j].retryE)
       /\ PassStarts(j) = pipe[j].invoked

C8_Witness ==
  \E j \in DOMAIN pipe :
    /\ pipe[j].pc = "summarizer" /\ pipe[j].entered
    /\ pipe[j].backEdges = 1
    /\ Len(pipe[j].cache) = 3
    /\ pipe[j].retryE = {1, 3}
    /\ PassStarts(j) = <<1, 3>>

ValidatorCompletions(j) ==
  Cardinality({i \in DOMAIN Log(j) :
                 Log(j)[i].type = "step:complete" /\ Log(j)[i].step = "validator"})

(* C9: retryCount is the number of Validate passes completed so far (0 at   *)
(* the start, one more per pass, retry taken or not) and never exceeds      *)
(* MAX_RETRIES = 2.                                                         *)
C9_RetryCountCountsValidations ==
  \A j \in DOMAIN pipe :
    /\ pipe[j].retryCount = pipe[j].valPasses
    /\ pipe[j].retryCount = ValidatorCompletions(j)
    /\ pipe[j].retryCount <= 2

C9_Witness ==
  \E j \in DOMAIN pipe :
    /\ pipe[j].retryCount = 2
    /\ pipe[j].backEdges = 1
    /\ pipe[j].pc = "formatter"
    /\ hasErrors(pipe[j].issues)

(* C10: Validate routes back to Summarize at most twice per job *)
C10_AtMostTwoRetryPasses ==
  \A j \in DOMAIN pipe : pipe[j].backEdges <= 2

C10_Witness ==
  \E j \in DOMAIN pipe :
    /\ pipe[j].backEdges = 1
    /\ pipe[j].pc = "formatter"
    /\ hasErrors(pipe[j].issues)
    /\ pipe[j].valPasses = 2

(* C11: a job whose Validate passes all report error-severity issues takes  *)
(* the back-edge to Summarize twice before it is routed to Format.          *)
C11_TwoRoundTrips ==
  \A j \in DOMAIN pipe :
    (pipe[j].pc = "formatter" /\ hasErrors(pipe[j].issues))
      => pipe[j].backEdges = 2

(* C12: the merge of a Summarize pass's results puts every result in the    *)
(* summaries in place of the entry of its scene, keeps the entries of the   *)
(* other scenes as they were, adds nothing else, and leaves the list in     *)
(* strictly ascending scene id order (so no id twice).                      *)
C12_MergeByScene ==
  [][\A j \in DOMAIN pipe :
       (pipe[j].pc = "summarizer" /\ pipe'[j].pc = "validator")
       => LET old == pipe[j].sceneSummaries
              new == pipe'[j].sceneSummaries
              res == pipe[j].acc
              resIds == {r.sceneId : r \in Range(res)}
          IN /\ Range(res) \subseteq Range(new)
             /\ \A o \in Range(old) : o.sceneId \notin resIds => o \in Range(new)
             /\ Range(new) \subseteq Range(old) \cup Range(res)
             /\ \A o \in Range(old) : o.sceneId \in resIds /\ o \notin Range(res)
                                        => o \notin Range(new)
             /\ \A a \in DOMAIN new, b \in DOMAIN new :
                  a < b => new[a].sceneId < new[b].sceneId]_vars

C12_Witness ==
  \E j \in DOMAIN pipe :
    /\ pipe[j].pc = "validator"
    /\ pipe[j].backEdges = 1
    /\ Len(pipe[j].sceneSummaries) = 3
    /\ pipe[j].sceneSummaries[1].pass = 1
    /\ pipe[j].sceneSummaries[2].pass = 2
    /\ pipe[j].sceneSummaries[3].pass = 1

InFlight(j) ==
  Cardinality({i \in DOMAIN pipe[j].slots : pipe[j].slots[i] = "flight"})

(* C13: at every moment a job has at most 5 unit calls dispatched and not   *)
(* yet resolved or rejected, in the Summarize stage and in the Validate     *)
(* stage, whatever the number of scenes and the order of completion.        *)
C13_AtMostFiveInFlight ==
  \A j \in DOMAIN pipe : InFlight(j) <= 5

C13_Witness ==
  \E j \in DOMAIN pipe :
    /\ pipe[j].pc = "validator"
    /\ Len(pipe[j].sceneSummaries) > 5
    /\ InFlight(j) = 5
    /\ pipe[j].todo # <<>>

(* a job whose analysis is done and gave no scene other than meta or pause *)
NothingToTell(j) ==
  /\ j \in DOMAIN pipe
  /\ pipe[j].pc \notin {"preprocessor", "analyst"}
  /\ \A i \in DOMAIN pipe[j].scenes : pipe[j].scenes[i].type \in {"meta", "pause"}

EndsWithResultDone(j) ==
  /\ Len(Log(j)) >= 2
  /\ Log(j)[Len(Log(j)) - 1].type = "result"
  /\ Log(j)[Len(Log(j))].type = "done"
  /\ jobs[j].status = "completed"

(* C14: a job whose Analyze stage gives only meta or pause scenes (or none) *)
(* makes no Summarize or Validate unit call and takes no retry, and it      *)
(* goes on to Format, publishes result then done, and ends completed.       *)
C14_NoNarrativeSceneCompletes ==
  /\ [](\A j \in JobIds :
          NothingToTell(j)
            => /\ pipe[j].invoked = <<>>
               /\ InFlight(j) = 0
               /\ pipe[j].backEdges = 0
               /\ pipe[j].valPasses <= 1
               /\ \A i \in DOMAIN Log(j) :
                    Log(j)[i].step \notin {"summarizer_scene", "validator_scene"}
               /\ jobs[j].status # "failed")
  /\ \A j \in JobIds :
       NothingToTell(j)
         ~> (j \in DOMAIN pipe /\ pipe[j].pc = "completed" /\ EndsWithResultDone(j))

C14_Witness ==
  \E j \in DOMAIN pipe :
    /\ NothingToTell(j)
    /\ Len(pipe[j].scenes) = 2
    /\ pipe[j].pc = "completed"
    /\ pipe[j].valPasses = 1
    /\ EndsWithResultDone(j)

(* C15: when a unit call of a Summarize or Validate batch or a stage        *)
(* executor raises, the job is failed, its log ends with the one error      *)
(* event, and holds no result and no done event, whatever settles later.    *)
C15_FailureIsTerminal ==
  \A j \in DOMAIN pipe :
    (pipe[j].pc = "failed" \/ \E i \in DOMAIN pipe[j].slots :
                                pipe[j].slots[i] \in {"rejected", "orphan"})
    => /\ pipe[j].pc = "failed"
       /\ jobs[j].status = "failed"
       /\ Log(j)[Len(Log(j))].type = "error"
       /\ \A i \in DOMAIN Log(j) :
            /\ Log(j)[i].type \notin {"result", "done"}
            /\ Log(j)[i].type = "error" => i = Len(Log(j))

C15_Witness ==
  \E j \in DOMAIN pipe :
    /\ pipe[j].pc = "failed"
    /\ jobs[j].status = "failed"
    /\ Len(pipe[j].slots) = 3
    /\ pipe[j].slots[1] = "resolved"
    /\ pipe[j].slots[2] = "rejected"
    /\ pipe[j].slots[3] = "orphan"
    /\ pipe[j].valPasses = 1
    /\ Log(j)[Len(Log(j))].type = "error"

ErrorEvents(j) == {i \in DOMAIN Log(j) : Log(j)[i].type = "error"}

(* C16: a job's error is non-null exactly when its status is failed, and is *)
(* then the message of the job's error event; GET /api/jobs/:id on a failed *)
(* job whose last update is at most 6 hours old answers 200 with status     *)
(* failed and that error.                                                   *)
C16_ErrorRecorded ==
  /\ [](\A j \in DOMAIN jobs :
          /\ jobs[j].error # NULL <=> jobs[j].status = "failed"
          /\ jobs[j].status = "failed"
               => /\ ErrorEvents(j) # {}
                  /\ \A i \in ErrorEvents(j) : Log(j)[i].message = jobs[j].error)
  /\ [][(/\ reply' # reply
         /\ reply'.route = "GET /api/jobs/:id"
         /\ reply'.id \in DOMAIN jobs
         /\ jobs[reply'.id].status = "failed"
         /\ now - jobs[reply'.id].updatedAt <= 6 * 60 * 60 * 1000)
        => /\ reply'.code = 200
           /\ reply'.body.status = "failed"
           /\ reply'.body.error = jobs[reply'.id].error
           /\ reply'.body.error # NULL]_vars

C16_Witness ==
  /\ reply.route = "GET /api/jobs/:id"
  /\ reply.code = 200
  /\ reply.body.status = "failed"
  /\ reply.body.error = "unit"
  /\ jobs[reply.id].error = "unit"
  /\ now - jobs[reply.id].updatedAt = 6 * 60 * 60 * 1000

(* a step that attaches a stream, or one that detaches stream s *)
Attaches == Len(streams') = Len(streams) + 1
Detaches(s) == s \in DOMAIN streams /\ ~streams[s].closed /\ streams'[s].closed
                 /\ streams'[s].detached

(* C17: attaching or detaching a stream changes the listener set of its job *)
(* and the keepalive of that connection, and nothing else of any job: not   *)
(* the status, the error, the log, the next event id or the progress of the *)
(* run; and the job goes on to its terminal state all the same.             *)
C17_SubscribersLeaveJobAlone ==
  /\ [][(Attaches \/ \E s \in DOMAIN streams : Detaches(s))
        => /\ pipe' = pipe
           /\ \A j \in DOMAIN jobs :
                jobs'[j] = [jobs[j] EXCEPT !.listeners = jobs'[j].listeners]
           /\ \A t \in DOMAIN streams :
                \/ streams'[t] = streams[t]
                \/ /\ Detaches(t)
                   /\ ~streams'[t].heartbeat
                   /\ streams'[t].received = streams[t].received
                   /\ t \notin Range(jobs'[streams[t].job].listeners)
                   /\ \A j \in DOMAIN jobs :
                        Range(jobs'[j].listeners) = Range(jobs[j].listeners) \ {t}]_vars
  /\ \A j \in JobIds :
       (j \in DOMAIN jobs) ~> (j \in DOMAIN jobs /\ EndsWithResultDone(j))

C17_Witness ==
  \E s \in DOMAIN streams, t \in DOMAIN streams :
    /\ streams[s].detached
    /\ streams[s].received = <<1, 2, 3>>
    /\ s \in streams[t].after
    /\ streams[t].closed /\ ~streams[t].detached
    /\ EndsWithResultDone(streams[s].job)
    /\ streams[t].job = streams[s].job

(* C18: a stream opened on a job that is completed or failed gets the       *)
(* buffered events with id >= from, in order, and is ended at once: no      *)
(* listener is added to the job and no keepalive is started. (from is a     *)
(* number, or missing and then 0.)                                          *)
C18_TerminalJobReplayOnly ==
  [][Attaches =>
       LET t == Len(streams')
           st == streams'[t]
           k == IF st.query = <<"absent">> THEN 0 ELSE Decimal(st.query)
       IN (/\ st.code = 200
           /\ jobs[st.job].status \in {"completed", "failed"}
           /\ (st.query = <<"absent">> \/ AllDigits(st.query)))
          => /\ st.received = Interval(Max(k, 1), Len(Log(st.job)))
             /\ st.ended
             /\ ~st.heartbeat
             /\ jobs' = jobs
             /\ t \notin Range(jobs'[st.job].listeners)]_vars

C18_Witness ==
  \E t \in DOMAIN streams :
    /\ streams[t].code = 200
    /\ streams[t].query = <<"4">>
    /\ streams[t].ended /\ ~streams[t].closed /\ ~streams[t].heartbeat
    /\ jobs[streams[t].job].status = "completed"
    /\ jobs[streams[t].job].listeners = <<>>
    /\ Len(streams[t].received) >= 3
    /\ streams[t].received = Interval(4, Len(Log(streams[t].job)))

(* a step of a handler that sweeps the registry *)
Sweeps ==
  \/ processJobs' # processJobs
  \/ Attaches
  \/ (reply' # reply /\ reply'.route = "GET /api/jobs/:id")

(* C19: the sweep removes a job only if it is completed or failed and its   *)
(* updatedAt is more than 6 hours in the past; a pending or running job is  *)
(* never removed; after a sweep no terminal job older than 6 hours is left  *)
(* in the registry; get or stream of a removed id is answered 404.          *)
C19_SweepRemovesOldTerminalJobs ==
  [][/\ \A id \in processJobs \ processJobs' :
          /\ jobs[id].status \in {"completed", "failed"}
          /\ now - jobs[id].updatedAt > 21600000
     /\ \A id \in processJobs :
          jobs[id].status \in {"pending", "running"} => id \in processJobs'
     /\ Sweeps =>
          \A id \in processJobs' :
            ~(/\ jobs'[id].status \in {"completed", "failed"}
              /\ now' - jobs'[id].updatedAt > 21600000)
     /\ (Attaches /\ streams'[Len(streams')].job \notin processJobs')
          => streams'[Len(streams')].code = 404
     /\ (/\ reply' # reply
         /\ reply'.route = "GET /api/jobs/:id"
         /\ reply'.id \notin processJobs')
          => reply'.code = 404]_vars

C19_Witness ==
  /\ reply.route = "GET /api/jobs/:id"
  /\ reply.code = 404
  /\ reply.id \in DOMAIN jobs
  /\ reply.id \notin processJobs
  /\ jobs[reply.id].status \in {"completed", "failed"}
  /\ now - jobs[reply.id].updatedAt > 21600000
  /\ \E s \in DOMAIN streams :
       streams[s].job = reply.id /\ streams[s].code = 404

(* what a submission carries: its transcript (the file when there is one),  *)
(* and its roster as a JSON value, when it is one                           *)
TranscriptSent(req) ==
  IF req.file # <<"absent">> THEN req.file
  ELSE IF req.transcript # <<"absent">> THEN req.transcript
  ELSE <<>>
Blank(text) == \A i \in DOMAIN text : text[i] = " "
RosterIsJson(req) ==
  req.playerInfo.kind = "string" => ~JSONparse(req.playerInfo.text).threw
RosterSent(req) ==
  IF req.playerInfo.kind = "absent" THEN JsonArray(<<>>)
  ELSE IF req.playerInfo.kind = "string" THEN JSONparse(req.playerInfo.text).value
  ELSE req.playerInfo.value
NoArrayRoster(req) ==
  ~RosterIsJson(req) \/ RosterSent(req).kind # "array"
HasName(item) ==
  \/ item.playerName # <<"absent">> /\ ~Blank(item.playerName)
  \/ item.characterName # <<"absent">> /\ ~Blank(item.characterName)
NamedPlayers(req) ==
  {i \in DOMAIN RosterSent(req).items :
     /\ RosterSent(req).items[i].kind = "object"
     /\ HasName(RosterSent(req).items[i])}
(* a roster that is not an array of player objects *)
MalformedRoster(req) ==
  \/ NoArrayRoster(req)
  \/ \E i \in DOMAIN RosterSent(req).items :
       RosterSent(req).items[i].kind # "object"
RejectedPost ==
  reply' # reply /\ reply'.route = "POST /api/jobs"

(* C20, as stated: a submission with an empty or missing transcript or a    *)
(* malformed roster is never accepted: no job is created for it.            *)
C20_Original ==
  \A i \in DOMAIN accepted :
    /\ ~Blank(TranscriptSent(accepted[i].req))
    /\ ~MalformedRoster(accepted[i].req)

(* C20, amended: a submission is answered 400 exactly when its transcript   *)
(* is empty, blank or missing, or its roster is not JSON or not an array;   *)
(* the rejection changes nothing in the registry, the logs or the runs. A   *)
(* roster array is accepted whatever its entries: those that are no object  *)
(* or have no name are dropped.                                             *)
C20_Amended ==
  /\ [](\A i \in DOMAIN accepted :
          /\ ~Blank(TranscriptSent(accepted[i].req))
          /\ ~NoArrayRoster(accepted[i].req)
          /\ accepted[i].body.playersCount
               = Cardinality(NamedPlayers(accepted[i].req)))
  /\ [](reply.route = "POST /api/jobs" =>
          /\ reply.code = 400
          /\ Blank(TranscriptSent(reply.req)) \/ NoArrayRoster(reply.req))
  /\ [][RejectedPost =>
          UNCHANGED <<jobs, processJobs, pipe, streams, accepted>>]_vars

C20_Witness ==
  /\ reply.route = "POST /api/jobs"
  /\ reply.code = 400
  /\ reply.req.playerInfo = RosterText("{")
  /\ \E i \in DOMAIN accepted :
       /\ accepted[i].req.playerInfo = RosterText("[42]")
       /\ accepted[i].body.playersCount = 0

(* a step that answers GET /api/jobs *)
ListStep ==
  /\ reply'.route = "GET /api/jobs"
  /\ UNCHANGED <<jobs, pipe, streams, accepted, now, ticks>>
(* the status set a query asks for: its words; none when there is no query *)
FilterGiven(query) ==
  query # <<"absent">> /\ \E i \in DOMAIN query : query[i] \notin {",", " "}
RequestedSet(query) ==
  {query[i] : i \in DOMAIN query} \ {",", " "}
ListedIds(list) == {list[i].id : i \in DOMAIN list}

(* C21: the list holds one summary per job in the registry whose status is  *)
(* in the requested status set (every job when no filter is given), newest  *)
(* first by creation time, no job twice and none outside the filter.        *)
C21_ListAsStated ==
  [][ListStep =>
       LET list == reply'.list
           query == reply'.status
       IN /\ ListedIds(list)
               = {id \in processJobs' :
                    FilterGiven(query) => jobs[id].status \in RequestedSet(query)}
          /\ Len(list) = Cardinality(ListedIds(list))
          /\ \A i \in DOMAIN list :
               /\ list[i].summary.status = jobs[list[i].id].status
               /\ list[i].summary.createdAt = jobs[list[i].id].createdAt
          /\ \A i \in DOMAIN list, k \in DOMAIN list :
               i < k => list[i].summary.createdAt >= list[k].summary.createdAt]_vars

C21_ValidFilter ==
  [][(ListStep /\ RequestedSet(reply'.status) \subseteq
         {"pending", "running", "completed", "failed"}) =>
       LET list == reply'.list
           query == reply'.status
       IN /\ ListedIds(list)
               = {id \in processJobs' :
                    FilterGiven(query) => jobs[id].status \in RequestedSet(query)}
          /\ Len(list) = Cardinality(ListedIds(list))
          /\ \A i \in DOMAIN list, k \in DOMAIN list :
               i < k => list[i].summary.createdAt >= list[k].summary.createdAt]_vars

(* C22: an event published while the job is completed or failed has type    *)
(* done or error; a done or error event is published while the status is    *)
(* already terminal; an event of any other type is published while the      *)
(* status is running, none while it is pending.                             *)
C22_TerminalEventsAtTerminalStatus ==
  \A j \in DOMAIN jobs :
    \A i \in DOMAIN Log(j) :
      /\ Log(j)[i].statusAt \in {"completed", "failed"}
           <=> Log(j)[i].type \in {"done", "error"}
      /\ Log(j)[i].type \notin {"done", "error"} => Log(j)[i].statusAt = "running"
      /\ Log(j)[i].statusAt # "pending"

C22_Witness ==
  \E j \in DOMAIN jobs :
    \E i \in DOMAIN Log(j), k \in DOMAIN Log(j), m \in DOMAIN Log(j) :
      /\ Log(j)[i].type = "done" /\ Log(j)[i].statusAt = "completed"
      /\ Log(j)[k].type = "error" /\ Log(j)[k].statusAt = "failed"
      /\ Log(j)[m].type = "result" /\ Log(j)[m].statusAt = "running"

(* C23: when every call to the model returns or fails, every created job    *)
(* eventually is completed or failed and every stream opened on it          *)
(* eventually ends; the Summarize/Validate loop does not go on for ever:    *)
(* no job validates more than twice.                                        *)
C23_EveryJobEnds ==
  /\ \A j \in JobIds :
       (j \in DOMAIN jobs)
         ~> (j \in DOMAIN jobs /\ jobs[j].status \in {"completed", "failed"})
  /\ \A s \in StreamIds :
       (s \in DOMAIN streams) ~> (s \in DOMAIN streams /\ streams[s].ended)
  /\ [](\A j \in DOMAIN pipe : pipe[j].valPasses <= 2 /\ pipe[j].sumPasses <= 2)

C23_Witness ==
  \E s \in DOMAIN streams :
    /\ streams[s].code = 200
    /\ streams[s].ended /\ streams[s].closed /\ ~streams[s].detached
    /\ jobs[streams[s].job].status = "completed"
    /\ pipe[streams[s].job].backEdges = 1
    /\ streams[s].received = [i \in 1 .. Len(Log(streams[s].job)) |-> i]

(* the streams of job j that are open on a listener *)
LiveStreams(j) ==
  {s \in DOMAIN streams :
     streams[s].job = j /\ streams[s].code = 200 /\ ~streams[s].ended}

(* C24: jobs that run at the same time are independent. A step that         *)
(* changes a job (publishes for it, changes its status, fails it) leaves    *)
(* every other job as it was: status, error, log, listeners, progress and   *)
(* the streams opened on it; the new events go to the streams open on the   *)
(* job, in order; and the ids of every log are 1..n.                        *)
C24_JobsIndependent ==
  /\ [][\A j \in DOMAIN jobs :
          jobs'[j] # jobs[j] =>
            /\ \A k \in DOMAIN jobs \ {j} :
                 /\ jobs'[k] = jobs[k]
                 /\ pipe'[k] = pipe[k]
                 /\ \A s \in DOMAIN streams :
                      streams[s].job = k => streams'[s] = streams[s]
            /\ \A s \in LiveStreams(j) :
                 streams'[s].received
                   = streams[s].received
                       \o [i \in 1 .. Len(Log(j)') - Len(Log(j)) |-> Len(Log(j)) + i]]_vars
  /\ [](\A j \in DOMAIN jobs : \A i \in DOMAIN Log(j) : Log(j)[i].id = i)

C24_Witness ==
  /\ Len(jobs) = 2
  /\ jobs[1].status = "failed" /\ jobs[2].status = "completed"
  /\ Len(Log(1)) = 4
  /\ \E s \in DOMAIN streams, t \in DOMAIN streams :
       /\ streams[s].job = 1 /\ streams[t].job = 2
       /\ streams[s].closed /\ streams[t].closed
       /\ ~streams[s].detached /\ ~streams[t].detached
       /\ streams[s].received = <<1, 2, 3, 4>>
       /\ streams[t].received = [i \in 1 .. Len(Log(2)) |-> i]

(* C25, as stated: every failure raised while a job runs, in a stage, in a  *)
(* unit call or in the insert of the report at the end of Format, is fatal  *)
(* and reported: the job is failed and has an error event, never completed. *)
C25_EveryFailureFatal ==
  \A j \in DOMAIN pipe :
    pipe[j].raised # {} =>
      /\ jobs[j].status = "failed"
      /\ \E i \in DOMAIN Log(j) : Log(j)[i].type = "error"

C25_StageAndUnitFailuresFatal ==
  \A j \in DOMAIN pipe :
    pipe[j].raised \cap {"stage", "unit"} # {} =>
      /\ jobs[j].status = "failed"
      /\ \E i \in DOMAIN Log(j) : Log(j)[i].type = "error"

(* the streams whose listener is attached to job j *)
Attached(j) == Range(jobs[j].listeners)

(* C26: a publish hands the new event, already in the log, exactly once to  *)
(* every listener attached when it is called, also when the listeners       *)
(* detach themselves during the notification (all do on the terminal        *)
(* event), and it sets updatedAt to the timestamp of the event.             *)
C26_PublishReachesEveryListener ==
  /\ [][\A j \in DOMAIN jobs :
          Len(Log(j)') > Len(Log(j)) =>
            /\ \A s \in Attached(j) :
                 streams'[s].received
                   = streams[s].received
                       \o [i \in 1 .. Len(Log(j)') - Len(Log(j)) |-> Len(Log(j)) + i]
            /\ jobs'[j].updatedAt = Log(j)'[Len(Log(j)')].timestamp
            /\ jobs'[j].status \in {"completed", "failed"} =>
                 /\ jobs'[j].listeners = <<>>
                 /\ \A s \in Attached(j) : streams'[s].ended]_vars
  /\ [](\A s \in DOMAIN streams : streams[s].inLog)

C26_Witness ==
  /\ Len(streams) = 2
  /\ \A s \in DOMAIN streams :
       /\ streams[s].code = 200
       /\ streams[s].closed /\ ~streams[s].detached
       /\ jobs[streams[s].job].status = "completed"
       /\ jobs[streams[s].job].updatedAt = 2
       /\ streams[s].received = [i \in 1 .. Len(Log(streams[s].job)) |-> i]

(* the order of the stages, and the stage events of a log *)
StageNames == {"preprocessor", "analyst", "summarizer", "validator", "formatter"}
StageOrder ==
  {<<"preprocessor", "analyst">>, <<"analyst", "summarizer">>,
   <<"summarizer", "validator">>, <<"validator", "summarizer">>,
   <<"validator", "formatter">>}
IsStageEvent(e) ==
  e.type \in {"step:start", "step:complete"} /\ e.step \in StageNames
StageLog(j) == SelectSeq(Log(j), IsStageEvent)
StartsOf(j, stage) ==
  {i \in DOMAIN StageLog(j) :
     StageLog(j)[i].type = "step:start" /\ StageLog(j)[i].step = stage}

(* C27: the stages of a job run one at a time in the order Preprocess,      *)
(* Analyze, one or more times Summarize then Validate, Format. Preprocess   *)
(* and Analyze run once, Format at most once and last, Validate comes       *)
(* right after a Summarize, and a stage starts only when the one before     *)
(* has finished (none of its unit calls is in flight).                      *)
C27_StagesInOrder ==
  /\ [][\A j \in DOMAIN pipe' :
          IF j \notin DOMAIN pipe THEN pipe'[j].pc = "preprocessor"
          ELSE pipe'[j].pc # pipe[j].pc =>
                 /\ pipe[j].pc \in StageNames
                 /\ \/ <<pipe[j].pc, pipe'[j].pc>> \in StageOrder
                    \/ pipe[j].pc = "formatter" /\ pipe'[j].pc = "completed"
                    \/ pipe'[j].pc = "failed"
                 /\ pipe'[j].pc \in StageNames =>
                      /\ InFlight(j) = 0
                      /\ InFlight(j)' = 0]_vars
  /\ [](\A j \in DOMAIN jobs :
          LET sl == StageLog(j)
              starts(stage) ==
                {i \in DOMAIN sl : sl[i].type = "step:start" /\ sl[i].step = stage}
          IN /\ sl[1].type = "step:start"
             /\ sl[1].step = "preprocessor"
             /\ \A i \in 1 .. Len(sl) - 1 :
                  IF sl[i].type = "step:start"
                  THEN sl[i + 1].type = "step:complete" /\ sl[i + 1].step = sl[i].step
                  ELSE /\ sl[i + 1].type = "step:start"
                       /\ <<sl[i].step, sl[i + 1].step>> \in StageOrder
             /\ Cardinality(starts("preprocessor")) = 1
             /\ Cardinality(starts("analyst")) <= 1
             /\ Cardinality(starts("formatter")) <= 1
             /\ \A i \in starts("formatter") : i >= Len(sl) - 1)

C27_Witness ==
  \E j \in DOMAIN pipe :
    /\ pipe[j].pc = "completed"
    /\ Cardinality(StartsOf(j, "summarizer")) = 2
    /\ Cardinality(StartsOf(j, "validator")) = 2
    /\ Cardinality(StartsOf(j, "formatter")) = 1
    /\ Len(pipe[j].scenes) = 3

(* the scenes that carry an error-severity issue in the validation report *)
ErrorScenes(j) ==
  {pipe[j].issues[i].sceneId :
     i \in {k \in DOMAIN pipe[j].issues : pipe[j].issues[k].severity = "error"}}

(* C28, as stated: in every state of a run, every id of a non-empty pending *)
(* scene id list is a scene that carries an error-severity issue in the     *)
(* validation report.                                                       *)
C28_PendingCarryErrors ==
  \A j \in DOMAIN pipe :
    Range(pipe[j].pendingSceneIds) \subseteq ErrorScenes(j)

(* what holds: it is so when Validate has sent the run back to Summarize *)
C28_PendingAtRetry ==
  \A j \in DOMAIN pipe :
    (pipe[j].pc = "summarizer" /\ pipe[j].backEdges > 0)
      => Range(pipe[j].pendingSceneIds) = ErrorScenes(j)

(* the issues of one scene in a report, and the scenes a report, a scene    *)
(* list or a pass names                                                     *)
IssuesOf(issues, id) == SelectSeq(issues, LAMBDA x : x.sceneId = id)
ScenesNamed(j) ==
  {pipe[j].scenes[i].id : i \in DOMAIN pipe[j].scenes}
    \cup {pipe[j].issues[i].sceneId : i \in DOMAIN pipe[j].issues}
    \cup {pipe'[j].issues[i].sceneId : i \in DOMAIN pipe'[j].issues}
Regenerated(j) ==
  {pipe[j].sceneSummaries[i].sceneId :
     i \in {k \in DOMAIN pipe[j].sceneSummaries :
              pipe[j].sceneSummaries[k].pass = pipe[j].sumPasses}}
(* a step that ends a Validate pass entered after a retry *)
RetryValidateReturns(j) ==
  /\ pipe[j].pc = "validator"
  /\ pipe[j].backEdges > 0
  /\ pipe'[j].pc \in {"summarizer", "formatter"}

(* C29: a retry Validate pass makes a unit call only for the scenes the     *)
(* Summarize pass before it regenerated; in its report a scene that was     *)
(* not validated again has exactly the issues it had in the report before,  *)
(* and a scene validated again has exactly the issues of the new pass.      *)
C29_RetryValidatesRegenerated ==
  [][\A j \in DOMAIN pipe :
       RetryValidateReturns(j) =>
         /\ Range(pipe[j].invoked) \subseteq Regenerated(j)
         /\ Range(pipe[j].invoked) # {}
         /\ \A id \in ScenesNamed(j) \ Range(pipe[j].invoked) :
              IssuesOf(pipe'[j].issues, id) = IssuesOf(pipe[j].issues, id)
         /\ \A id \in Range(pipe[j].invoked) :
              \E r \in pipe[j].produced :
                r.sceneId = id /\ IssuesOf(pipe'[j].issues, id) = r.issues]_vars

C29_Witness ==
  \E j \in DOMAIN pipe :
    /\ pipe[j].valPasses = 2
    /\ pipe[j].pc = "formatter"
    /\ pipe[j].retryE = {1}
    /\ pipe[j].invoked = <<1>>
    /\ pipe[j].issues = <<[sceneId |-> 2, severity |-> "warning"]>>

(* the scene events of a log, and those a step adds *)
IsSceneEvent(e) == e.step \in {"summarizer_scene", "validator_scene"}
NewEvents(j) == SubSeq(Log(j)', Len(Log(j)) + 1, Len(Log(j)'))
Unresolved(j) ==
  {i \in DOMAIN pipe[j].slots : pipe[j].slots[i] # "resolved"}

(* C30: in a Summarize or Validate pass the batches, of at most 5 scenes,   *)
(* go one after the other: the start event of a scene comes before its      *)
(* complete event, a complete event is published only for a unit call that  *)
(* resolved, and a start event of the next batch only once every unit call  *)
(* of the batch before has resolved.                                        *)
C30_BatchesInSequence ==
  /\ [][\A j \in DOMAIN pipe :
          LET new == NewEvents(j)
              starts == {i \in DOMAIN new :
                           IsSceneEvent(new[i]) /\ new[i].type = "step:start"}
              completes == {i \in DOMAIN new :
                              IsSceneEvent(new[i]) /\ new[i].type = "step:complete"}
          IN /\ Cardinality(starts) <= 5
             /\ \A i \in completes :
                  /\ new[i].scenes[1] \in pipe'[j].resolvedIds \ pipe[j].resolvedIds
                  /\ \E k \in DOMAIN pipe[j].slots :
                       /\ pipe[j].batch[k] = new[i].scenes[1]
                       /\ pipe[j].slots[k] = "flight"
             /\ (starts # {} /\ pipe[j].entered) =>
                  /\ Cardinality(Unresolved(j)) = 1
                  /\ \A k \in Unresolved(j) :
                       /\ pipe[j].slots[k] = "flight"
                       /\ pipe[j].batch[k] \in pipe'[j].resolvedIds
                  /\ \A i \in starts : \E c \in completes : c < i]_vars
  /\ [](\A j \in DOMAIN jobs :
          LET lg == Log(j)
              count(type, step, id, n) ==
                Cardinality({k \in 1 .. n :
                               /\ lg[k].type = type /\ lg[k].step = step
                               /\ lg[k].scenes = <<id>>})
          IN \A i \in DOMAIN lg :
               (IsSceneEvent(lg[i]) /\ lg[i].type = "step:complete") =>
                 count("step:complete", lg[i].step, lg[i].scenes[1], i)
                   <= count("step:start", lg[i].step, lg[i].scenes[1], i))

C30_Witness ==
  \E j \in DOMAIN pipe :
    /\ pipe[j].pc = "validator"
    /\ pipe[j].entered
    /\ Len(pipe[j].batch) = 2
    /\ pipe[j].resolvedIds = {1, 2, 3, 4, 5, 6}
    /\ Cardinality({k \in DOMAIN Log(j) :
                      /\ Log(j)[k].type = "step:complete"
                      /\ Log(j)[k].step = "summarizer_scene"}) = 7

(* the ids of the scenes of type meta or pause, and the id lists a pending  *)
(* list or a summary list may hold: none, one id (of a scene or of no       *)
(* scene), or the ids of all the scenes                                     *)
ExcludedIds(scenes) ==
  {scenes[i].id : i \in {k \in DOMAIN scenes : scenes[k].type \in {"meta", "pause"}}}
IdLists(scenes) ==
  {<<>>, [i \in DOMAIN scenes |-> scenes[i].id]}
    \cup {<<i>> : i \in 1 .. Len(scenes) + 1}
SummariesOf(ids) == [i \in DOMAIN ids |-> [sceneId |-> ids[i], pass |-> 1]]

(* C31: no Summarize or Validate unit call is made and no scene start event *)
(* is emitted for a scene of type meta or pause, on the first pass and on   *)
(* every retry pass, even when the id of such a scene is in the pending     *)
(* scene id list or has a summary.                                          *)
C31_NoUnitForMetaOrPause ==
  \A j \in DOMAIN pipe :
    LET st == pipe[j]
        excluded == ExcludedIds(st.scenes)
    IN /\ Range(st.invoked) \cap excluded = {}
       /\ Range(st.batch) \cap excluded = {}
       /\ \A i \in DOMAIN Log(j) :
            IsSceneEvent(Log(j)[i]) => Log(j)[i].scenes[1] \notin excluded
       /\ \A ids \in IdLists(st.scenes), sums \in IdLists(st.scenes),
            r \in 0 .. MAX_RETRIES :
            LET any == [st EXCEPT !.pendingSceneIds = ids,
                                  !.sceneSummaries = SummariesOf(sums),
                                  !.retryCount = r]
            IN /\ Range(scenesToProcess(any)) \cap excluded = {}
               /\ Range(scenesWithSummaries(any)) \cap excluded = {}

C31_Witness ==
  \E j \in DOMAIN pipe :
    /\ pipe[j].scenes = <<[id |-> 1, type |-> "meta"],
                          [id |-> 2, type |-> "narrative"],
                          [id |-> 3, type |-> "pause"]>>
    /\ pipe[j].backEdges = 1
    /\ pipe[j].pc = "validator"
    /\ pipe[j].invoked = <<2>>
    /\ Cardinality({i \in DOMAIN Log(j) :
                      /\ Log(j)[i].type = "step:start"
                      /\ Log(j)[i].step = "summarizer_scene"}) = 2

(* the passes of a log that have ended: an announce event of a group at i,  *)
(* the complete event of that group's stage at k, none between them         *)
AnnouncedPasses(lg, group) ==
  {<<i, k>> \in (DOMAIN lg) \X (DOMAIN lg) :
     /\ i < k
     /\ lg[i].type = "step:scenes" /\ lg[i].step = group
     /\ lg[k].type = "step:complete" /\ lg[k].step = group
     /\ \A m \in i + 1 .. k - 1 :
          ~(lg[m].type = "step:complete" /\ lg[m].step = group)}
StartedIn(lg, i, k, step) ==
  {lg[m].scenes[1] :
     m \in {n \in i .. k : lg[n].type = "step:start" /\ lg[n].step = step}}
AnnounceIsProcessed(lg, group, step) ==
  \A pass \in AnnouncedPasses(lg, group) :
    Range(lg[pass[1]].scenes) = StartedIn(lg, pass[1], pass[2], step)

(* C32, as stated: every announce event lists exactly the scenes the pass   *)
(* it announces then makes unit calls for, in the summarize group and in    *)
(* the validate group, on the first pass and on retry passes alike.         *)
C32_AnnounceIsProcessed ==
  \A j \in DOMAIN jobs :
    LET lg == Log(j)
    IN /\ AnnounceIsProcessed(lg, "summarizer", "summarizer_scene")
       /\ AnnounceIsProcessed(lg, "validator", "validator_scene")

(* what holds: it is so in the summarize group *)
C32_SummarizeAnnounce ==
  \A j \in DOMAIN jobs :
    LET lg == Log(j)
    IN AnnounceIsProcessed(lg, "summarizer", "summarizer_scene")

(* the orders in which the results of a pass can be handed to the merge,    *)
(* and the results of a pass in the order of its calls                      *)
Reordered(s) ==
  {[i \in DOMAIN s |-> s[f[i]]] : f \in Permutations(DOMAIN s)}
ResultsAsCalled(st) ==
  [i \in DOMAIN st.invoked |-> [sceneId |-> st.invoked[i], pass |-> st.sumPasses]]
SummarizeReturns(j) ==
  /\ pipe[j].pc = "summarizer"
  /\ pipe'[j].pc = "validator"

(* C33: the per-scene summaries after a Summarize pass do not depend on the *)
(* order in which the unit calls of a batch complete: the results reach the *)
(* merge in the order of the calls, and the merged list is the same for     *)
(* every order of the same results.                                         *)
C33_MergeIgnoresCompletionOrder ==
  [][\A j \in DOMAIN pipe :
       SummarizeReturns(j) =>
         /\ pipe[j].acc = ResultsAsCalled(pipe[j])
         /\ \A other \in Reordered(pipe[j].acc) :
              sceneSummariesReducer(pipe[j].sceneSummaries, other)
                = pipe'[j].sceneSummaries]_vars

(* the second call of a batch of three completed first, the first one last *)
C33_Witness ==
  \E j \in DOMAIN pipe :
    /\ pipe[j].pc = "validator"
    /\ pipe[j].sumPasses = 1
    /\ Len(pipe[j].sceneSummaries) = 3
    /\ LET done == SelectSeq(Log(j), LAMBDA e :
                     e.type = "step:complete" /\ e.step = "summarizer_scene")
       IN [i \in DOMAIN done |-> done[i].scenes[1]] = <<2, 3, 1>>

(* C34: no handler other than the one that creates the job observes the    *)
(* status pending: whenever control is back in the event loop every job is  *)
(* past pending and its log starts with event 1, the stage start of         *)
(* Preprocess; no summary read or listed says pending, a list filtered on   *)
(* pending alone is empty, and a stream starts with event 1.                *)
C34_PendingNeverObserved ==
  /\ \A j \in DOMAIN jobs :
       /\ jobs[j].status # "pending"
       /\ Len(Log(j)) >= 1
       /\ Log(j)[1].id = 1
       /\ Log(j)[1].type = "step:start"
       /\ Log(j)[1].step = "preprocessor"
       /\ Log(j)[1].statusAt = "running"
  /\ (reply.route = "GET /api/jobs/:id" /\ reply.code = 200)
       => reply.body.status # "pending"
  /\ reply.route = "GET /api/jobs" =>
       /\ \A i \in DOMAIN reply.list : reply.list[i].summary.status # "pending"
       /\ RequestedSet(reply.status) = {"pending"} => reply.list = <<>>
  /\ \A s \in DOMAIN streams :
       streams[s].code = 200 =>
         /\ streams[s].received # <<>>
         /\ streams[s].received[1] = 1

C34_Witness ==
  /\ Len(jobs) = 2
  /\ jobs[1].status = "completed"
  /\ jobs[2].status = "running"
  /\ Len(Log(2)) = 1
  /\ reply.route = "GET /api/jobs"
  /\ reply.status = <<"pending">>
  /\ reply.list = <<>>
  /\ Len(streams) = 1
  /\ streams[1].job = 2

(* the streams that went live on a job, and those the client did not close *)
WentLive(j) ==
  {s \in DOMAIN streams :
     streams[s].job = j /\ streams[s].code = 200
     /\ (streams[s].heartbeat \/ streams[s].closed)}
LiveToTheEnd(j) == {s \in WentLive(j) : ~streams[s].detached}

(* C35: whenever a job is completed or failed and control is back in the    *)
(* event loop, it has no listener and every stream that was live on it is   *)
(* ended, its timer cancelled; a stream still attached when the terminal    *)
(* event was published received that event last.                            *)
C35_TerminalJobHasNoListener ==
  \A j \in DOMAIN jobs :
    isTerminalJobStatus(jobs[j].status) =>
      /\ jobs[j].listeners = <<>>
      /\ \A s \in DOMAIN streams :
           (streams[s].job = j /\ streams[s].code = 200) =>
             /\ streams[s].ended
             /\ ~streams[s].heartbeat
      /\ \A s \in LiveToTheEnd(j) :
           /\ streams[s].closed
           /\ streams[s].received # <<>>
           /\ streams[s].received[Len(streams[s].received)]
                = Log(j)[Len(Log(j))].id
           /\ Log(j)[Len(Log(j))].type \in {"done", "error"}

C35_Witness ==
  /\ Len(jobs) = 1
  /\ jobs[1].status = "failed"
  /\ Len(streams) = 2
  /\ LiveToTheEnd(1) = {1, 2}
  /\ streams[1].received = <<1, 2, 3, 4>>
  /\ streams[2].received = <<4>>

(* a step that handles the update of a Validate pass, and the events of a   *)
(* given type and step among those it publishes                             *)
ValidateReturns(j) ==
  /\ pipe[j].pc = "validator"
  /\ pipe'[j].pc \in {"summarizer", "formatter"}
Published(j, type, step) ==
  {i \in DOMAIN NewEvents(j) :
     NewEvents(j)[i].type = type /\ NewEvents(j)[i].step = step}

(* C36: after each Validate update the wrapper publishes the stage start of *)
(* a Summarize retry, with a scene list, exactly when the router routes to  *)
(* Summarize, and the stage start of Format otherwise; the scenes it        *)
(* announces for the retry are those the retry pass emits start events for. *)
C36_WrapperAgreesWithRouter ==
  /\ [][\A j \in DOMAIN pipe :
          ValidateReturns(j) =>
            LET retry == validatorRouter(pipe'[j]) = "summarizer"
            IN /\ pipe'[j].pc = validatorRouter(pipe'[j])
               /\ Published(j, "step:start", "summarizer") # {} <=> retry
               /\ Published(j, "step:scenes", "summarizer") # {} <=> retry
               /\ Published(j, "step:start", "formatter") # {} <=> ~retry
               /\ \A i \in Published(j, "step:scenes", "summarizer") :
                    /\ NewEvents(j)[i].scenes # <<>>
                    /\ Range(NewEvents(j)[i].scenes)
                         = Range(scenesToProcess(pipe'[j]))]_vars
  /\ [](\A j \in DOMAIN pipe :
          pipe[j].backEdges > 0 =>
            AnnounceIsProcessed(Log(j), "summarizer", "summarizer_scene"))

C36_Witness ==
  \E j \in DOMAIN pipe :
    /\ pipe[j].pc = "validator"
    /\ pipe[j].backEdges = 1
    /\ ~pipe[j].entered
    /\ Len(narrativeIds(pipe[j].scenes)) = 3
    /\ \E i \in DOMAIN Log(j) :
         /\ Log(j)[i].type = "step:scenes"
         /\ Log(j)[i].step = "summarizer"
         /\ Log(j)[i].scenes = <<1, 3>>
    /\ pipe[j].invoked = <<1, 3>>

(* a job that failed because a unit call of a batch rejected *)
UnitFailed(j) ==
  /\ pipe[j].pc = "failed"
  /\ \E i \in DOMAIN pipe[j].slots : pipe[j].slots[i] = "rejected"

(* C37: when a unit call of a batch rejects the job is failed, with the     *)
(* error of that call, while other calls of the batch may be in flight;     *)
(* from then on no step, the settling of those calls included, changes the  *)
(* job (log, status, error) or what a subscriber of the job has received.   *)
C37_LateResultsChangeNothing ==
  /\ [](\A j \in DOMAIN pipe :
          UnitFailed(j) =>
            /\ jobs[j].status = "failed"
            /\ jobs[j].error = "unit"
            /\ Log(j)[Len(Log(j))].type = "error"
            /\ jobs[j].listeners = <<>>)
  /\ [][\A j \in DOMAIN pipe :
          UnitFailed(j) =>
            /\ jobs'[j] = jobs[j]
            /\ \A s \in DOMAIN streams :
                 streams[s].job = j => streams'[s] = streams[s]]_vars

C37_Witness ==
  \E j \in DOMAIN pipe :
    /\ UnitFailed(j)
    /\ pipe[j].slots = <<"orphan", "rejected">>
    /\ pipe[j].sumPasses = 1
    /\ pipe[j].valPasses = 0
    /\ Len(streams) = 1
    /\ streams[1].closed
    /\ ~streams[1].detached
    /\ streams[1].received[Len(streams[1].received)] = Log(j)[Len(Log(j))].id

(* C38: after every Validate pass every issue of the validation report      *)
(* carries the id of a scene that is not meta or pause and has a summary;   *)
(* so some issue has error severity exactly when the set of error scene ids *)
(* is not empty, and when the back-edge is taken the pending scene id list  *)
(* is not empty and Summarize works from it, not from all narrative scenes. *)
C38_IssuesNameSummarizedScenes ==
  \A j \in DOMAIN pipe :
    LET st == pipe[j]
    IN /\ \A i \in DOMAIN st.issues :
            /\ st.issues[i].sceneId \in Range(narrativeIds(st.scenes))
            /\ st.issues[i].sceneId \in Range(summaryIds(st.sceneSummaries))
       /\ hasErrors(st.issues) <=>
            (ErrorScenes(j) \cap Range(narrativeIds(st.scenes))) # {}
       /\ (st.pc = "summarizer" /\ st.backEdges > 0 /\ ~st.entered) =>
            /\ st.pendingSceneIds # <<>>
            /\ Range(st.pendingSceneIds) = ErrorScenes(j)
            /\ summarizerPending(st) = st.pendingSceneIds
            /\ scenesToProcess(st) = st.pendingSceneIds

C38_Witness ==
  \E j \in DOMAIN pipe :
    /\ pipe[j].pc = "summarizer"
    /\ pipe[j].backEdges = 1
    /\ ~pipe[j].entered
    /\ pipe[j].pendingSceneIds = <<1, 3>>
    /\ pipe[j].issues = <<[sceneId |-> 1, severity |-> "error"],
                          [sceneId |-> 2, severity |-> "warning"],
                          [sceneId |-> 3, severity |-> "error"]>>

(* the streams of a job whose keepalive timer is running *)
WithTimer(j) ==
  {s \in DOMAIN streams : streams[s].job = j /\ streams[s].heartbeat}

(* C39: stream cleanup is idempotent and complete: when the close of the    *)
(* request and the close of the response both fire, in either order or      *)
(* after the terminal event has triggered cleanup, the listener is removed, *)
(* the timer cancelled and the response ended once, and a later cleanup     *)
(* changes nothing; at every moment a job has as many listeners as it has   *)
(* streams with a running keepalive timer.                                  *)
C39_CleanupIdempotent ==
  /\ [](/\ \A s \in DOMAIN streams :
             /\ streams[s].torn <= 1
             /\ streams[s].closed <=> streams[s].torn = 1
             /\ streams[s].closed =>
                  /\ ~streams[s].heartbeat
                  /\ streams[s].ended
                  /\ s \notin Range(jobs[streams[s].job].listeners)
             /\ streams[s].closes > 0 => streams[s].closed
        /\ \A j \in DOMAIN jobs :
             /\ Len(jobs[j].listeners) = Cardinality(WithTimer(j))
             /\ Range(jobs[j].listeners) = WithTimer(j))
  /\ [][\A s \in DOMAIN streams :
          streams[s].closed =>
            /\ [streams'[s] EXCEPT !.closes = 0] = [streams[s] EXCEPT !.closes = 0]
            /\ streams'[s].closes # streams[s].closes => jobs' = jobs]_vars

(* both closes fired after the terminal event ended one stream, and both    *)
(* fired on a stream the client closed                                      *)
C39_Witness ==
  /\ Len(streams) = 2
  /\ streams[1].detached /\ streams[1].closes = 2 /\ streams[1].torn = 1
  /\ ~streams[2].detached /\ streams[2].closes = 2 /\ streams[2].torn = 1
  /\ streams[2].received = <<1, 2, 3, 4>>
  /\ jobs[1].status = "failed"

====
